---- MODULE Spec2Model ----
(***************************************************************************)
(* A model of UVM: the assembler (src/src/parser.rs), the instruction set  *)
(* (src/src/asm.rs), the binary serializer (src/src/serializer.rs) and the *)
(* interpreter with its debugger (src/src/vm.rs).                          *)
(*                                                                         *)
(* Scaling.  TLC's integers are 32 bits wide, so the 64-bit machine word   *)
(* (i64, usize, f64) is modelled as a word of IntBytes bytes with the same *)
(* two's-complement and little-endian structure.  NUM_REGISTERS,           *)
(* STACK_SIZE and CALL_STACK_SIZE are scaled down so that the overflow     *)
(* cases are reached.  Bytes (u8) keep their width.                        *)
(*                                                                         *)
(* Abstractions.  An f64 is its bit pattern, the leading IntBytes bytes of *)
(* the binary64 pattern; f64::from_str is modelled for decimal literals    *)
(* without an exponent and for inf, infinity and nan.  The results of      *)
(* real +, -, *, / and powf are not computed (see FloatArith).  Integer    *)
(* +, - and * that overflow either wrap or panic, as the build decides.    *)
(* An index out of the bounds of an array or a Vec is a panic.             *)
(*                                                                         *)
(* Specifications.  Spec is one call of run on the interpreter that       *)
(* VM::new builds from an assembled source.  SpecAsm is the assembler and  *)
(* the serializer: a source is assembled, serialized and deserialized.     *)
(* SpecBin is disassemble on the bytes of a file, which need not be the    *)
(* bytes that serialize wrote.                                             *)
(* SpecRaw is one call of run on the interpreter that VM::new builds from  *)
(* any Vec<Code>, which need not be a stream that the assembler wrote.     *)
(* SpecRerun is Spec with run called again after it has returned.          *)
(* SpecLoop is the run of one counting loop to its HALT, with weakly fair  *)
(* steps.  SpecDbg is one call of debugger, on the inputs typed at its     *)
(* prompt.  SpecDisplay is displayable_code on any Vec<Code>.              *)
(***************************************************************************)
EXTENDS Integers, Sequences, FiniteSets, TLC

(***************************************************************************)
(* Bounds of the model                                                     *)
(***************************************************************************)
IntBytes == 2

NUM_REGISTERS == 3

STACK_SIZE == 4

CALL_STACK_SIZE == 2

MaxSteps == 12

(***************************************************************************)
(* Machine words                                                           *)
(***************************************************************************)
RECURSIVE Pow2(_)
Pow2(n) == IF n = 0 THEN 1 ELSE 2 * Pow2(n - 1)

IntBits == 8 * IntBytes

Modulus == Pow2(IntBits)

MinInt == 0 - Pow2(IntBits - 1)

MaxInt == Pow2(IntBits - 1) - 1

InRange(x) == MinInt <= x /\ x <= MaxInt

Abs(x) == IF x < 0 THEN 0 - x ELSE x

\* the value of the low IntBits bits of x, read as a signed word
Wrap(x) == ((x - MinInt) % Modulus) + MinInt

\* the unsigned reading of a signed word
ToUnsigned(x) == x % Modulus

\* i64::wrapping_mul, by doubling, so that no intermediate value leaves TLC's range
RECURSIVE MulMod(_, _)
MulMod(a, b) ==
    IF b = 0 THEN 0
    ELSE (2 * MulMod(a, b \div 2) + (IF b % 2 = 1 THEN a ELSE 0)) % Modulus

WrappingMul(a, b) == Wrap(MulMod(ToUnsigned(a), ToUnsigned(b)))

\* whether the mathematical product a * b lies outside the word
MulOverflows(a, b) ==
    /\ a # 0
    /\ b # 0
    /\ \/ Abs(a) > (0 - MinInt) \div Abs(b)
       \/ ~InRange(a * b)

\* Rust's integer division truncates toward zero
TruncDiv(a, b) ==
    LET q == Abs(a) \div Abs(b)
    IN  IF (a < 0) = (b < 0) THEN q ELSE 0 - q

\* Rust's remainder has the sign of the dividend
TruncRem(a, b) == a - b * TruncDiv(a, b)

(***************************************************************************)
(* Little-endian codecs: to_le_bytes / from_le_bytes                       *)
(***************************************************************************)
\* n little-endian bytes of the unsigned value u
RECURSIVE UToLeBytes(_, _)
UToLeBytes(u, n) ==
    IF n = 0 THEN <<>> ELSE <<u % 256>> \o UToLeBytes(u \div 256, n - 1)

\* a fault for the round trip: the bytes read most significant first
RECURSIVE UFromBeBytes(_)
UFromBeBytes(bs) ==
    IF bs = <<>> THEN 0
    ELSE UFromBeBytes(SubSeq(bs, 1, Len(bs) - 1)) * 256 + bs[Len(bs)]

RECURSIVE UFromLeBytes(_)
UFromLeBytes(bs) ==
    IF bs = <<>> THEN 0 ELSE bs[1] + 256 * UFromLeBytes(Tail(bs))

I64ToLeBytes(x) == UToLeBytes(ToUnsigned(x), IntBytes)

I64FromLeBytes(bs) == Wrap(UFromLeBytes(bs))

\* an f64 is modelled by its bit pattern, an unsigned word, and so is a usize:
\* their to_le_bytes and from_le_bytes are UToLeBytes(_, IntBytes) and UFromLeBytes
f2i(x) == I64FromLeBytes(UToLeBytes(x, IntBytes))

i2f(x) == UFromLeBytes(I64ToLeBytes(x))

(***************************************************************************)
(* The instruction set: enum OpCode, its mnemonics and its operand shapes   *)
(***************************************************************************)
HALT == 0

SET == 1

SETF == 2

MOV == 3

PUSH == 4

PUSHL == 5

POP == 6

PUSHRF == 7

POPRF == 8

ADD == 9

ADDL == 10

SUB == 11

SUBL == 12

SUB2L == 13

MUL == 14

MULL == 15

DIV == 16

DIVL == 17

DIV2L == 18

MOD == 19

INC == 20

DEC == 21

ADDF == 22

ADDFL == 23

SUBF == 24

SUBFL == 25

SUBF2L == 26

MULF == 27

MULFL == 28

DIVF == 29

DIVFL == 30

DIVF2L == 31

POW == 32

POW2 == 33

POWL == 34

POW2L == 35

CEIL == 36

FLOR == 37

CMP == 38

CMPL == 39

JMP == 40

JEQ == 41

JLT == 42

JLE == 43

JGT == 44

JGE == 45

JNE == 46

CALL == 47

RET == 48

DBGREG == 49

DBGREGF == 50

DBGREGS == 51

NumOpCodes == 52

OpCodes == 0 .. (NumOpCodes - 1)

\* the mnemonic of every opcode (Display / FromStr), as a sequence of characters
OpNames == <<
    << "H", "A", "L", "T" >>,
    << "S", "E", "T" >>,
    << "S", "E", "T", "F" >>,
    << "M", "O", "V" >>,
    << "P", "U", "S", "H" >>,
    << "P", "U", "S", "H", "L" >>,
    << "P", "O", "P" >>,
    << "P", "U", "S", "H", "R", "F" >>,
    << "P", "O", "P", "R", "F" >>,
    << "A", "D", "D" >>,
    << "A", "D", "D", "L" >>,
    << "S", "U", "B" >>,
    << "S", "U", "B", "L" >>,
    << "S", "U", "B", "2", "L" >>,
    << "M", "U", "L" >>,
    << "M", "U", "L", "L" >>,
    << "D", "I", "V" >>,
    << "D", "I", "V", "L" >>,
    << "D", "I", "V", "2", "L" >>,
    << "M", "O", "D" >>,
    << "I", "N", "C" >>,
    << "D", "E", "C" >>,
    << "A", "D", "D", "F" >>,
    << "A", "D", "D", "F", "L" >>,
    << "S", "U", "B", "F" >>,
    << "S", "U", "B", "F", "L" >>,
    << "S", "U", "B", "F", "2", "L" >>,
    << "M", "U", "L", "F" >>,
    << "M", "U", "L", "F", "L" >>,
    << "D", "I", "V", "F" >>,
    << "D", "I", "V", "F", "L" >>,
    << "D", "I", "V", "F", "2", "L" >>,
    << "P", "O", "W" >>,
    << "P", "O", "W", "2" >>,
    << "P", "O", "W", "L" >>,
    << "P", "O", "W", "2", "L" >>,
    << "C", "E", "I", "L" >>,
    << "F", "L", "O", "R" >>,
    << "C", "M", "P" >>,
    << "C", "M", "P", "L" >>,
    << "J", "M", "P" >>,
    << "J", "E", "Q" >>,
    << "J", "L", "T" >>,
    << "J", "L", "E" >>,
    << "J", "G", "T" >>,
    << "J", "G", "E" >>,
    << "J", "N", "E" >>,
    << "C", "A", "L", "L" >>,
    << "R", "E", "T" >>,
    << "D", "B", "G", "R", "E", "G" >>,
    << "D", "B", "G", "R", "E", "G", "F" >>,
    << "D", "B", "G", "R", "E", "G", "S" >>
>>

OP_ARG_TYPES == <<
    "Nil",  \* HALT
    "IntReg",  \* SET
    "RealReg",  \* SETF
    "RegReg",  \* MOV
    "Reg",  \* PUSH
    "Int",  \* PUSHL
    "Reg",  \* POP
    "Int",  \* PUSHRF
    "Int",  \* POPRF
    "RegReg",  \* ADD
    "IntReg",  \* ADDL
    "RegReg",  \* SUB
    "IntReg",  \* SUBL
    "IntReg",  \* SUB2L
    "RegReg",  \* MUL
    "IntReg",  \* MULL
    "RegReg",  \* DIV
    "IntReg",  \* DIVL
    "IntReg",  \* DIV2L
    "RegReg",  \* MOD
    "Reg",  \* INC
    "Reg",  \* DEC
    "RegReg",  \* ADDF
    "RealReg",  \* ADDFL
    "RegReg",  \* SUBF
    "RealReg",  \* SUBFL
    "RealReg",  \* SUBF2L
    "RegReg",  \* MULF
    "RealReg",  \* MULFL
    "RegReg",  \* DIVF
    "RealReg",  \* DIVFL
    "RealReg",  \* DIVF2L
    "RegReg",  \* POW
    "RegReg",  \* POW2
    "IntReg",  \* POWL
    "IntReg",  \* POW2L
    "Reg",  \* CEIL
    "Reg",  \* FLOR
    "RegReg",  \* CMP
    "IntReg",  \* CMPL
    "Addr",  \* JMP
    "Addr",  \* JEQ
    "Addr",  \* JLT
    "Addr",  \* JLE
    "Addr",  \* JGT
    "Addr",  \* JGE
    "Addr",  \* JNE
    "Addr",  \* CALL
    "Nil",  \* RET
    "Reg",  \* DBGREG
    "Reg",  \* DBGREGF
    "Nil"   \* DBGREGS
>>

Shape(op) == OP_ARG_TYPES[op + 1]

\* number of operand atoms of a shape
ShapeArity(t) ==
    CASE t = "Nil" -> 0
      [] t \in {"Reg", "Addr", "Int"} -> 1
      [] OTHER -> 2

(***************************************************************************)
(* enum Code: the atoms of an instruction stream                           *)
(***************************************************************************)
CodeOp(o) == [tag |-> "Op", val |-> o]

CodeReg(r) == [tag |-> "Reg", val |-> r]

CodeInt(v) == [tag |-> "Int", val |-> v]

CodeAddr(a) == [tag |-> "Addr", val |-> a]

\* the payload of a Real atom is the bit pattern of the f64
CodeReal(f) == [tag |-> "Real", val |-> f]

\* OpCode::to_le_bytes: the discriminant as one byte
OpToLeBytes(op) == <<op>>

\* OpCode::from_le_bytes: try_from_primitive fails on a byte that is no discriminant
OpFromLeBytes(byte) ==
    IF byte \in OpCodes THEN [ok |-> TRUE, val |-> byte] ELSE [ok |-> FALSE, val |-> 0]

(***************************************************************************)
(* Source text.  A line is the sequence of its whitespace-separated        *)
(* chunks, a chunk is a sequence of characters.  Cutting the line at the   *)
(* first "//" and splitting at whitespace commute, so the comment is cut   *)
(* off chunk by chunk.                                                     *)
(***************************************************************************)
starts_with(s, c) == Len(s) >= 1 /\ s[1] = c

ends_with(s, c) == Len(s) >= 1 /\ s[Len(s)] = c

\* position of the first "//" of a chunk, 0 when it has none
CommentAt(s) ==
    LET At == {i \in 1 .. (Len(s) - 1) : s[i] = "/" /\ s[i + 1] = "/"}
    IN  IF At = {} THEN 0 ELSE CHOOSE i \in At : \A j \in At : i <= j

\* line.splitn(2, "//").next().unwrap().trim().split_whitespace()
RECURSIVE split_line(_)
split_line(chunks) ==
    IF chunks = <<>> THEN <<>>
    ELSE LET c == CommentAt(Head(chunks))
         IN  IF c = 0 THEN <<Head(chunks)>> \o split_line(Tail(chunks))
             ELSE IF c = 1 THEN <<>>
             ELSE <<SubSeq(Head(chunks), 1, c - 1)>>

(***************************************************************************)
(* FromStr for OpCode, u8, i64 and f64                                     *)
(***************************************************************************)
OpCode_from_str(s) ==
    IF \E o \in OpCodes : OpNames[o + 1] = s
    THEN [ok |-> TRUE, val |-> CHOOSE o \in OpCodes : OpNames[o + 1] = s]
    ELSE [ok |-> FALSE, val |-> 0]

DigitChars == <<"0", "1", "2", "3", "4", "5", "6", "7", "8", "9">>

IsDigit(c) == \E i \in 1 .. 10 : DigitChars[i] = c

DigitVal(c) == (CHOOSE i \in 1 .. 10 : DigitChars[i] = c) - 1

\* the digit loop of core::num::from_str_radix with its checked arithmetic
RECURSIVE Accumulate(_, _, _, _, _)
Accumulate(ds, acc, positive, lo, hi) ==
    IF ds = <<>> THEN [ok |-> TRUE, val |-> acc]
    ELSE IF ~IsDigit(Head(ds)) THEN [ok |-> FALSE, val |-> 0]
    ELSE LET Checked_(n) ==
                 IF n < lo \/ n > hi THEN [ok |-> FALSE, val |-> 0]
                 ELSE Accumulate(Tail(ds), n, positive, lo, hi)
         IN  Checked_(IF positive THEN acc * 10 + DigitVal(Head(ds))
                      ELSE acc * 10 - DigitVal(Head(ds)))

from_str_radix(s, is_signed_ty, lo, hi) ==
    IF s = <<>> THEN [ok |-> FALSE, val |-> 0]
    ELSE IF s[1] \in {"+", "-"} /\ Len(s) = 1 THEN [ok |-> FALSE, val |-> 0]
    ELSE IF s[1] = "+" THEN Accumulate(Tail(s), 0, TRUE, lo, hi)
    ELSE IF s[1] = "-" /\ is_signed_ty THEN Accumulate(Tail(s), 0, FALSE, lo, hi)
    ELSE Accumulate(s, 0, TRUE, lo, hi)

u8_from_str(s) == from_str_radix(s, FALSE, 0, 255)

i64_from_str(s) == from_str_radix(s, TRUE, MinInt, MaxInt)

\* f64: 1 sign bit, 11 exponent bits, the leading MantBits bits of the mantissa
MantBits == IntBits - 12

SignBit == Pow2(IntBits - 1)

F64Infinity == 2047 * Pow2(MantBits)

F64NaN == F64Infinity + Pow2(MantBits - 1)

RECURSIVE Pow10(_)
Pow10(n) == IF n = 0 THEN 1 ELSE 10 * Pow10(n - 1)

\* the e with 2^e <= num/den < 2^(e+1), searched from e
RECURSIVE Log2Floor(_, _, _)
Log2Floor(num, den, e) ==
    IF e >= 0
    THEN IF num >= den * Pow2(e + 1) THEN Log2Floor(num, den, e + 1)
         ELSE IF num < den * Pow2(e) THEN Log2Floor(num, den, e - 1)
         ELSE e
    ELSE IF num * Pow2(0 - e) < den THEN Log2Floor(num, den, e - 1) ELSE e

\* the bit pattern of the positive rational num/den
F64Bits(num, den) ==
    IF num = 0 THEN 0
    ELSE LET Sig(sh) == IF sh >= 0 THEN (num * Pow2(sh)) \div den
                         ELSE num \div (den * Pow2(0 - sh))
             Bits(e) == (1023 + e) * Pow2(MantBits) + (Sig(MantBits - e) - Pow2(MantBits))
         IN  Bits(Log2Floor(num, den, 0))

IsWord(s, lower, upper) ==
    /\ Len(s) = Len(lower)
    /\ \A i \in 1 .. Len(s) : s[i] = lower[i] \/ s[i] = upper[i]

AllDigits(s) == \A i \in 1 .. Len(s) : IsDigit(s[i])

DotAt(s) ==
    LET At == {i \in 1 .. Len(s) : s[i] = "."}
    IN  IF At = {} THEN 0 ELSE CHOOSE i \in At : \A j \in At : i <= j

\* the digits of a decimal without exponent: [ok, num, den]
Decimal(s) ==
    LET Digits(ip, fp) ==
            IF ip \o fp = <<>> \/ ~AllDigits(ip \o fp)
            THEN [ok |-> FALSE, num |-> 0, den |-> 1]
            ELSE [ok |-> TRUE, num |-> Accumulate(ip \o fp, 0, TRUE, 0, 999999).val,
                  den |-> Pow10(Len(fp))]
        Cut(d) == IF d = 0 THEN Digits(s, <<>>)
                  ELSE Digits(SubSeq(s, 1, d - 1), SubSeq(s, d + 1, Len(s)))
    IN  Cut(DotAt(s))

\* f64::from_str for decimals without exponent, "inf", "infinity" and "nan"
f64_from_str(s) ==
    LET Number(sgn, digits) ==
            IF digits.ok THEN [ok |-> TRUE, val |-> sgn + F64Bits(digits.num, digits.den)]
            ELSE [ok |-> FALSE, val |-> 0]
        Unsigned(sgn, body) ==
            IF \/ IsWord(body, <<"i", "n", "f">>, <<"I", "N", "F">>)
               \/ IsWord(body, <<"i", "n", "f", "i", "n", "i", "t", "y">>,
                         <<"I", "N", "F", "I", "N", "I", "T", "Y">>)
            THEN [ok |-> TRUE, val |-> sgn + F64Infinity]
            ELSE IF IsWord(body, <<"n", "a", "n">>, <<"N", "A", "N">>)
            THEN [ok |-> TRUE, val |-> sgn + F64NaN]
            ELSE Number(sgn, Decimal(body))
    IN  IF Len(s) >= 1 /\ s[1] = "-" THEN Unsigned(SignBit, Tail(s))
        ELSE IF Len(s) >= 1 /\ s[1] = "+" THEN Unsigned(0, Tail(s))
        ELSE Unsigned(0, s)

(***************************************************************************)
(* The assembler: parse_string and its helpers                             *)
(***************************************************************************)
\* a parse error: its kind, the "<filename>.<lineno>" it carries (has_pos) and
\* the opcode it names (NoOp when it names none)
NoOp == 0 - 1

ParseErr(kind, has_pos, lineno, op) ==
    [ok |-> FALSE, kind |-> kind, has_pos |-> has_pos, lineno |-> lineno, op |-> op,
     code |-> <<>>]

ParseOk(code) ==
    [ok |-> TRUE, kind |-> "", has_pos |-> FALSE, lineno |-> 0, op |-> NoOp,
     code |-> code]

\* the operand readers take the next chunk of the line: [ok, val, rest, kind]
p_consume_int(parts) ==
    LET Parsed(v) ==
            IF ~v.ok
            THEN [ok |-> FALSE, val |-> 0, rest |-> Tail(parts), kind |-> "expected integer"]
            ELSE [ok |-> TRUE, val |-> v.val, rest |-> Tail(parts), kind |-> ""]
    IN  IF parts = <<>>
        THEN [ok |-> FALSE, val |-> 0, rest |-> parts,
              kind |-> "expected integer, found nothing"]
        ELSE Parsed(i64_from_str(Head(parts)))

p_consume_reg(parts) ==
    LET Parsed(v) ==
            IF ~v.ok
            THEN [ok |-> FALSE, val |-> 0, rest |-> Tail(parts), kind |-> "expected register"]
            ELSE [ok |-> TRUE, val |-> v.val, rest |-> Tail(parts), kind |-> ""]
    IN  IF parts = <<>>
        THEN [ok |-> FALSE, val |-> 0, rest |-> parts,
              kind |-> "expected register, found nothing"]
        ELSE IF ~starts_with(Head(parts), "r")
        THEN [ok |-> FALSE, val |-> 0, rest |-> Tail(parts), kind |-> "expected register"]
        ELSE Parsed(u8_from_str(Tail(Head(parts))))

p_consume_real(parts) ==
    LET Parsed(v) ==
            IF ~v.ok
            THEN [ok |-> FALSE, val |-> 0, rest |-> Tail(parts), kind |-> "expected real"]
            ELSE [ok |-> TRUE, val |-> v.val, rest |-> Tail(parts), kind |-> ""]
    IN  IF parts = <<>>
        THEN [ok |-> FALSE, val |-> 0, rest |-> parts,
              kind |-> "expected real, found nothing"]
        ELSE Parsed(f64_from_str(Head(parts)))

validate_line_is_over(parts) == parts = <<>>

beggining_of_program ==
    << "_", "_", "b", "e", "g", "g", "i", "n", "i", "n", "g", "_", "o", "f", "_", "p", "r", "o", "g", "r", "a", "m", "_", "_" >>

\* the state of the line loop of parse_string
ParseInit ==
    [code |-> <<>>, labels |-> <<>>, label_refs |-> <<>>,
     current_parent_label |-> beggining_of_program]

\* a fault for the scopes: a sublabel is not qualified by its parent
Qualified_flat(parent, name) == name

\* "parent>name"
Qualified(parent, name) == parent \o <<">">> \o name

\* a fault for the duplicates: a second declaration replaces the first
parse_label_overwrite(st, raw_op, lineno) ==
    IF starts_with(raw_op, ".")
    THEN LET label == Qualified(st.current_parent_label,
                                SubSeq(raw_op, 2, Len(raw_op) - 1))
         IN  [ok |-> TRUE,
              st |-> [st EXCEPT !.labels =
                          (label :> Len(st.code))
                              @@ [n \in DOMAIN st.labels \ {label} |-> st.labels[n]]],
              err |-> ParseOk(<<>>)]
    ELSE LET label == SubSeq(raw_op, 1, Len(raw_op) - 1)
         IN  [ok |-> TRUE,
              st |-> [st EXCEPT !.labels =
                          (label :> Len(st.code))
                              @@ [n \in DOMAIN st.labels \ {label} |-> st.labels[n]],
                                !.current_parent_label = label],
              err |-> ParseOk(<<>>)]

\* a label declaration line (the chunks after the first are not looked at)
parse_label(st, raw_op, lineno) ==
    IF starts_with(raw_op, ".")
    THEN LET label == Qualified(st.current_parent_label,
                                SubSeq(raw_op, 2, Len(raw_op) - 1))
         IN  IF label \in DOMAIN st.labels
             THEN [ok |-> FALSE, st |-> st,
                   err |-> ParseErr("sublabel already defined", TRUE, lineno, NoOp)]
             ELSE [ok |-> TRUE,
                   st |-> [st EXCEPT !.labels = (label :> Len(st.code)) @@ st.labels],
                   err |-> ParseOk(<<>>)]
    ELSE LET label == SubSeq(raw_op, 1, Len(raw_op) - 1)
         IN  IF label \in DOMAIN st.labels
             THEN [ok |-> FALSE, st |-> st,
                   err |-> ParseErr("label already defined", TRUE, lineno, NoOp)]
             ELSE [ok |-> TRUE,
                   st |-> [st EXCEPT !.labels = (label :> Len(st.code)) @@ st.labels,
                                     !.current_parent_label = label],
                   err |-> ParseOk(<<>>)]

Fail(st, kind, lineno, op) ==
    [ok |-> FALSE, st |-> st, err |-> ParseErr(kind, TRUE, lineno, op)]

\* a fault for the shapes: the last atom of an instruction is not appended
Emit_short(st, atoms) ==
    [ok |-> TRUE, st |-> [st EXCEPT !.code = st.code \o SubSeq(atoms, 1, Len(atoms) - 1)],
     err |-> ParseOk(<<>>)]

Emit(st, atoms) ==
    [ok |-> TRUE, st |-> [st EXCEPT !.code = st.code \o atoms], err |-> ParseOk(<<>>)]

\* the match on the operand shape of an instruction line
parse_instruction(st, op, parts, lineno) ==
    LET eol == "expected end of line"
        Nil == IF ~validate_line_is_over(parts) THEN Fail(st, eol, lineno, op)
               ELSE Emit(st, <<CodeOp(op)>>)
        Reg(reg) ==
            IF ~reg.ok THEN Fail(st, reg.kind, lineno, op)
            ELSE IF ~validate_line_is_over(reg.rest) THEN Fail(st, eol, lineno, op)
            ELSE Emit(st, <<CodeOp(op), CodeReg(reg.val)>>)
        IntReg_(int, reg) ==
            IF ~int.ok THEN Fail(st, int.kind, lineno, op)
            ELSE IF ~reg.ok THEN Fail(st, reg.kind, lineno, op)
            ELSE IF ~validate_line_is_over(reg.rest) THEN Fail(st, eol, lineno, op)
            ELSE Emit(st, <<CodeOp(op), CodeInt(int.val), CodeReg(reg.val)>>)
        IntReg(int) == IntReg_(int, p_consume_reg(int.rest))
        RegReg_(reg1, reg2) ==
            IF ~reg1.ok THEN Fail(st, reg1.kind, lineno, op)
            ELSE IF ~reg2.ok THEN Fail(st, reg2.kind, lineno, op)
            ELSE IF ~validate_line_is_over(reg2.rest) THEN Fail(st, eol, lineno, op)
            ELSE Emit(st, <<CodeOp(op), CodeReg(reg1.val), CodeReg(reg2.val)>>)
        RegReg(reg1) == RegReg_(reg1, p_consume_reg(reg1.rest))
        Label(raw) == IF starts_with(raw, ".")
                      THEN Qualified(st.current_parent_label, Tail(raw))
                      ELSE raw
        Addr == IF parts = <<>> THEN Fail(st, "expected label, found nothing", lineno, op)
                ELSE [ok |-> TRUE,
                      st |-> [st EXCEPT
                                !.label_refs = ((Len(st.code) + 1) :> Label(Head(parts)))
                                                   @@ st.label_refs,
                                !.code = st.code \o <<CodeOp(op), CodeAddr(0)>>],
                      err |-> ParseOk(<<>>)]
        Int_(int) ==
            IF ~int.ok THEN Fail(st, int.kind, lineno, op)
            ELSE IF ~validate_line_is_over(int.rest) THEN Fail(st, eol, lineno, op)
            ELSE Emit(st, <<CodeOp(op), CodeInt(int.val)>>)
        RealReg_(val, reg) ==
            IF ~val.ok THEN Fail(st, val.kind, lineno, op)
            ELSE IF ~reg.ok THEN Fail(st, reg.kind, lineno, op)
            ELSE IF ~validate_line_is_over(reg.rest) THEN Fail(st, eol, lineno, op)
            ELSE Emit(st, <<CodeOp(op), CodeReal(val.val), CodeReg(reg.val)>>)
        RealReg(val) == RealReg_(val, p_consume_reg(val.rest))
        Match(t) ==
            CASE t = "Nil" -> Nil
              [] t = "Reg" -> Reg(p_consume_reg(parts))
              [] t = "IntReg" -> IntReg(p_consume_int(parts))
              [] t = "RegReg" -> RegReg(p_consume_reg(parts))
              [] t = "Addr" -> Addr
              [] t = "Int" -> Int_(p_consume_int(parts))
              [] t = "RealReg" -> RealReg(p_consume_real(parts))
    IN  Match(Shape(op))

\* one iteration of the line loop; lineno is ctxt.line after ctxt.inc()
parse_line(st, raw_line, lineno) ==
    LET Instruction(op, parts) ==
            IF ~op.ok THEN Fail(st, "expected OpCode", lineno, NoOp)
            ELSE parse_instruction(st, op.val, parts, lineno)
        Parts(line) ==
            IF line = <<>> THEN [ok |-> TRUE, st |-> st, err |-> ParseOk(<<>>)]
            ELSE IF ends_with(Head(line), ":") THEN parse_label(st, Head(line), lineno)
            ELSE Instruction(OpCode_from_str(Head(line)), Tail(line))
    IN  Parts(split_line(raw_line))

RECURSIVE parse_lines(_, _, _)
parse_lines(raw_code, i, st) ==
    LET Continue(r) == IF r.ok THEN parse_lines(raw_code, i + 1, r.st) ELSE r
    IN  IF i > Len(raw_code) THEN [ok |-> TRUE, st |-> st, err |-> ParseOk(<<>>)]
        ELSE Continue(parse_line(st, raw_code[i], i))

\* the label references whose label is declared nowhere
Undefined(st) == {a \in DOMAIN st.label_refs : st.label_refs[a] \notin DOMAIN st.labels}

\* a fault for the pc invariant: every reference is rewritten to the atom
\* behind its label
substitute_labels_behind(st) ==
    [i \in 1 .. Len(st.code) |->
        IF (i - 1) \in DOMAIN st.label_refs
        THEN CodeAddr(st.labels[st.label_refs[i - 1]] + 1)
        ELSE st.code[i]]

\* a fault for the references: the placeholders are left in the stream
substitute_labels_skipped(st) == st.code

\* the stream with every recorded reference rewritten to its label's index
substitute_labels(st) ==
    [i \in 1 .. Len(st.code) |->
        IF (i - 1) \in DOMAIN st.label_refs
        THEN CodeAddr(st.labels[st.label_refs[i - 1]])
        ELSE st.code[i]]

\* a fault for the references: an undefined one keeps its placeholder
parse_string_lenient(raw_code) ==
    LET Resolve(st) ==
            [i \in 1 .. Len(st.code) |->
                IF (i - 1) \in DOMAIN st.label_refs
                       /\ st.label_refs[i - 1] \in DOMAIN st.labels
                THEN CodeAddr(st.labels[st.label_refs[i - 1]])
                ELSE st.code[i]]
        Substitute(r) == IF ~r.ok THEN r.err ELSE ParseOk(Resolve(r.st))
    IN  Substitute(parse_lines(raw_code, 1, ParseInit))

\* parse_string.  label_refs is a HashMap, iterated in an unspecified order, so
\* with several undefined references any of them may be the one the message
\* names; the message carries no source position in each case.
parse_string(raw_code) ==
    LET Substitute(r) ==
            IF ~r.ok THEN r.err
            ELSE IF Undefined(r.st) # {}
            THEN ParseErr("label not defined", FALSE, 0, NoOp)
            ELSE ParseOk(substitute_labels(r.st))
    IN  Substitute(parse_lines(raw_code, 1, ParseInit))

(***************************************************************************)
(* The serializer.  An outcome is Ok(val), Err(kind) or a panic (an index  *)
(* out of the bounds of a Vec).                                            *)
(***************************************************************************)
Ok(v) == [res |-> "Ok", val |-> v, kind |-> ""]

Err(kind) == [res |-> "Err", val |-> <<>>, kind |-> kind]

Panic(kind) == [res |-> "Panic", val |-> <<>>, kind |-> kind]

UVM_SIGNATURE_LEN == 15

UVM_BINARY_SIGNATURE == <<86, 105, 99, 116, 104, 111, 114, 32, 105, 115, 32, 67, 48, 48, 76>>

UVM_BINARY_VERSION == 1

\* the operand atoms a shape expects, in order
ShapeTags(t) ==
    CASE t = "Nil" -> <<>>
      [] t = "Reg" -> <<"Reg">>
      [] t = "IntReg" -> <<"Int", "Reg">>
      [] t = "RegReg" -> <<"Reg", "Reg">>
      [] t = "Addr" -> <<"Addr">>
      [] t = "Int" -> <<"Int">>
      [] t = "RealReg" -> <<"Real", "Reg">>

\* the bytes of one operand atom
AtomToLeBytes(atom) ==
    CASE atom.tag = "Reg" -> <<atom.val>>
      [] atom.tag = "Int" -> I64ToLeBytes(atom.val)
      [] atom.tag = "Addr" -> UToLeBytes(atom.val, IntBytes)
      [] atom.tag = "Real" -> UToLeBytes(atom.val, IntBytes)

\* the operands of the instruction at idx (0-based), from operand k on
RECURSIVE serialize_operands(_, _, _, _, _)
serialize_operands(code, idx, tags, k, binary) ==
    IF k > Len(tags) THEN Ok(binary)
    ELSE IF idx + k >= Len(code) THEN Panic("index out of bounds")
    ELSE IF code[idx + k + 1].tag # tags[k]
    THEN Err(CASE tags[k] = "Reg" -> "Expected a register"
               [] tags[k] = "Int" -> "Expected an integer"
               [] tags[k] = "Addr" -> "Expected an address"
               [] tags[k] = "Real" -> "Expected a real")
    ELSE serialize_operands(code, idx, tags, k + 1,
                            binary \o AtomToLeBytes(code[idx + k + 1]))

\* the while loop of serialize, idx 0-based
RECURSIVE serialize_loop(_, _, _)
serialize_loop(code, idx, binary) ==
    LET Continue(r, tags) ==
            IF r.res # "Ok" THEN r ELSE serialize_loop(code, idx + 1 + Len(tags), r.val)
        Operands(op, tags) ==
            Continue(serialize_operands(code, idx, tags, 1, binary \o OpToLeBytes(op)), tags)
    IN  IF idx >= Len(code) THEN Ok(binary)
        ELSE IF code[idx + 1].tag # "Op" THEN Err("Expected an opcode")
        ELSE Operands(code[idx + 1].val, ShapeTags(Shape(code[idx + 1].val)))

serialize(code) ==
    serialize_loop(code, 0, UVM_BINARY_SIGNATURE \o <<UVM_BINARY_VERSION>>)

\* the width in bytes of an operand atom
TagBytes(tag) == IF tag = "Reg" THEN 1 ELSE IntBytes

\* from_le_bytes of the operand at binary[at ..], at 0-based
AtomFromLeBytes(tag, binary, at) ==
    LET bs == SubSeq(binary, at + 1, at + TagBytes(tag))
    IN  CASE tag = "Reg" -> CodeReg(bs[1])
          [] tag = "Int" -> CodeInt(I64FromLeBytes(bs))
          [] tag = "Addr" -> CodeAddr(UFromLeBytes(bs))
          [] tag = "Real" -> CodeReal(UFromLeBytes(bs))

\* the operands of the instruction whose opcode byte is at idx; at is the
\* 0-based offset of operand k
RECURSIVE deserialize_operands(_, _, _, _, _)
deserialize_operands(binary, at, tags, k, atoms) ==
    IF k > Len(tags) THEN Ok([atoms |-> atoms, idx |-> at])
    ELSE IF at + TagBytes(tags[k]) > Len(binary) THEN Panic("index out of bounds")
    ELSE deserialize_operands(binary, at + TagBytes(tags[k]), tags, k + 1,
                              Append(atoms, AtomFromLeBytes(tags[k], binary, at)))

\* the while loop of deserialize, idx 0-based
RECURSIVE deserialize_loop(_, _, _)
deserialize_loop(binary, idx, code) ==
    LET Continue(op, r) ==
            IF r.res # "Ok" THEN r
            ELSE deserialize_loop(binary, r.val.idx, code \o <<CodeOp(op)>> \o r.val.atoms)
        Operands(op) ==
            IF ~op.ok THEN Err("Invalid opcode")
            ELSE Continue(op.val,
                          deserialize_operands(binary, idx + 1, ShapeTags(Shape(op.val)),
                                               1, <<>>))
    IN  IF idx >= Len(binary) THEN Ok(code)
        ELSE Operands(OpFromLeBytes(binary[idx + 1]))

\* a fault for the header: the version byte is not compared
deserialize_any_version(binary) ==
    IF Len(binary) < UVM_SIGNATURE_LEN + 1 THEN Err("Binary is too short")
    ELSE IF SubSeq(binary, 1, UVM_SIGNATURE_LEN) # UVM_BINARY_SIGNATURE
    THEN Err("Binary signature is invalid")
    ELSE deserialize_loop(binary, UVM_SIGNATURE_LEN + 1, <<>>)

deserialize(binary) ==
    IF Len(binary) < UVM_SIGNATURE_LEN + 1 THEN Err("Binary is too short")
    ELSE IF SubSeq(binary, 1, UVM_SIGNATURE_LEN) # UVM_BINARY_SIGNATURE
    THEN Err("Binary signature is invalid")
    ELSE IF binary[UVM_SIGNATURE_LEN + 1] # UVM_BINARY_VERSION
    THEN Err("Binary version is invalid")
    ELSE deserialize_loop(binary, UVM_SIGNATURE_LEN + 1, <<>>)

(***************************************************************************)
(* The interpreter: struct VM.  A vm is the record of its fields; an       *)
(* outcome of a helper or of step is Ok, Err or a panic, with the vm as    *)
(* the helper left it.                                                     *)
(***************************************************************************)
\* VM::new
VM_new(stream) ==
    [code |-> stream,
     regs |-> [r \in 0 .. (NUM_REGISTERS - 1) |-> 0],
     stack |-> [i \in 0 .. (STACK_SIZE - 1) |-> 0],
     call_stack |-> [i \in 0 .. (CALL_STACK_SIZE - 1) |-> 0],
     pc |-> 0, sp |-> 0, csp |-> 0, cmp |-> 0]

\* a fault for the advance of pc: a consumed atom is not stepped over
Consumed_in_place(vm, val) == [res |-> "Ok", kind |-> "", val |-> val, vm |-> vm]

\* the outcomes of a consume helper: the atom's value with pc += 1, an Err,
\* or the panic of code[pc] with pc out of bounds
Consumed(vm, val) == [res |-> "Ok", kind |-> "", val |-> val, vm |-> [vm EXCEPT !.pc = vm.pc + 1]]

\* a fault for the consume helpers: pc advances on failure too
Refused_advanced(vm, kind) ==
    [res |-> "Err", kind |-> kind, val |-> 0, vm |-> [vm EXCEPT !.pc = vm.pc + 1]]

Refused(vm, kind) == [res |-> "Err", kind |-> kind, val |-> 0, vm |-> vm]

Panicked(vm, kind) == [res |-> "Panic", kind |-> kind, val |-> 0, vm |-> vm]

consume_op(vm) ==
    IF vm.pc >= Len(vm.code) THEN Panicked(vm, "index out of bounds: code")
    ELSE IF vm.code[vm.pc + 1].tag = "Op" THEN Consumed(vm, vm.code[vm.pc + 1].val)
    ELSE Refused(vm, "Expected an opcode")

\* a fault for the register bound: an index the machine does not have is
\* reduced modulo NUM_REGISTERS instead of refused
consume_reg_wrapped(vm) ==
    IF vm.pc >= Len(vm.code) THEN Panicked(vm, "index out of bounds: code")
    ELSE IF vm.code[vm.pc + 1].tag = "Reg"
    THEN Consumed(vm, vm.code[vm.pc + 1].val % NUM_REGISTERS)
    ELSE Refused(vm, "Expected a register")

consume_reg(vm) ==
    IF vm.pc >= Len(vm.code) THEN Panicked(vm, "index out of bounds: code")
    ELSE IF vm.code[vm.pc + 1].tag = "Reg"
    THEN IF vm.code[vm.pc + 1].val >= NUM_REGISTERS THEN Refused(vm, "Register out of bounds")
         ELSE Consumed(vm, vm.code[vm.pc + 1].val)
    ELSE Refused(vm, "Expected a register")

consume_int(vm) ==
    IF vm.pc >= Len(vm.code) THEN Panicked(vm, "index out of bounds: code")
    ELSE IF vm.code[vm.pc + 1].tag = "Int" THEN Consumed(vm, vm.code[vm.pc + 1].val)
    ELSE Refused(vm, "Expected an integer")

consume_addr(vm) ==
    IF vm.pc >= Len(vm.code) THEN Panicked(vm, "index out of bounds: code")
    ELSE IF vm.code[vm.pc + 1].tag = "Addr" THEN Consumed(vm, vm.code[vm.pc + 1].val)
    ELSE Refused(vm, "Expected an address")

consume_real(vm) ==
    IF vm.pc >= Len(vm.code) THEN Panicked(vm, "index out of bounds: code")
    ELSE IF vm.code[vm.pc + 1].tag = "Real" THEN Consumed(vm, vm.code[vm.pc + 1].val)
    ELSE Refused(vm, "Expected a real")

\* the consume calls at the head of each arm of step, in the order of the arm
ArmOperands(op) ==
    CASE op \in {HALT, RET, DBGREGS} -> <<>>
      [] op \in {SET, ADDL, SUBL, SUB2L, MULL, DIVL, DIV2L, CMPL} -> <<"Int", "Reg">>
      [] op \in {SETF, ADDFL, SUBFL, SUBF2L, MULFL, DIVFL, DIVF2L, POWL, POW2L}
           -> <<"Real", "Reg">>
      [] op \in {MOV, ADD, SUB, MUL, DIV, MOD, ADDF, SUBF, MULF, DIVF, POW, POW2, CMP}
           -> <<"Reg", "Reg">>
      [] op \in {PUSH, POP, INC, DEC, CEIL, FLOR, DBGREG, DBGREGF} -> <<"Reg">>
      [] op \in {PUSHL, PUSHRF, POPRF} -> <<"Int">>
      [] op \in {JMP, JEQ, JLT, JLE, JGT, JGE, JNE, CALL} -> <<"Addr">>

\* the consume calls of an arm from the k-th on, each returning early on
\* failure: [res, kind, vals, vm]
RECURSIVE consume_operands(_, _, _, _)
consume_operands(vm, tags, k, vals) ==
    LET Continue(c) ==
            IF c.res # "Ok" THEN [res |-> c.res, kind |-> c.kind, vals |-> vals, vm |-> c.vm]
            ELSE consume_operands(c.vm, tags, k + 1, Append(vals, c.val))
    IN  IF k > Len(tags) THEN [res |-> "Ok", kind |-> "", vals |-> vals, vm |-> vm]
        ELSE Continue(CASE tags[k] = "Reg" -> consume_reg(vm)
                        [] tags[k] = "Int" -> consume_int(vm)
                        [] tags[k] = "Addr" -> consume_addr(vm)
                        [] tags[k] = "Real" -> consume_real(vm))

\* the outcomes of step: Ok(StepResult), Err, or a panic
StepResult(vm, continue_running, output) ==
    [res |-> "Ok", kind |-> "", vm |-> vm, continue_running |-> continue_running,
     output |-> output]

\* a fault for the output: every successful step prints a line
StepOk_noisy(vm) == StepResult(vm, TRUE, <<[what |-> "", reg |-> 0, vals |-> <<>>]>>)

StepOk(vm) == StepResult(vm, TRUE, <<>>)

StepErr(vm, kind) ==
    [res |-> "Err", kind |-> kind, vm |-> vm, continue_running |-> FALSE, output |-> <<>>]

StepPanic(vm, kind) ==
    [res |-> "Panic", kind |-> kind, vm |-> vm, continue_running |-> FALSE, output |-> <<>>]

\* the ? on a consume helper
StepFail(c) == IF c.res = "Err" THEN StepErr(c.vm, c.kind) ELSE StepPanic(c.vm, c.kind)

(***************************************************************************)
(* Integer arithmetic on registers.  +, - and * panic on overflow in a     *)
(* build with overflow checks and wrap in a build without; / and % panic   *)
(* on a zero divisor and on MIN / -1 in every build.                       *)
(***************************************************************************)
Value(v) == [res |-> "Ok", val |-> v, kind |-> ""]

Abort(kind) == [res |-> "Panic", val |-> 0, kind |-> kind]

\* a sum or a difference x
Checked(x) ==
    IF InRange(x) THEN {Value(x)}
    ELSE {Value(Wrap(x)), Abort("arithmetic overflow")}

IntMul(a, b) ==
    IF MulOverflows(a, b) THEN {Value(WrappingMul(a, b)), Abort("arithmetic overflow")}
    ELSE {Value(a * b)}

\* a fault for the operand order: the divisor divided by the dividend
IntDiv_swapped(a, b) ==
    IF a = 0 THEN {Abort("attempt to divide by zero")}
    ELSE IF b = MinInt /\ a = 0 - 1 THEN {Abort("attempt to divide with overflow")}
    ELSE {Value(TruncDiv(b, a))}

IntDiv(a, b) ==
    IF b = 0 THEN {Abort("attempt to divide by zero")}
    ELSE IF a = MinInt /\ b = 0 - 1 THEN {Abort("attempt to divide with overflow")}
    ELSE {Value(TruncDiv(a, b))}

IntRem(a, b) ==
    IF b = 0 THEN {Abort("attempt to calculate the remainder with a divisor of zero")}
    ELSE IF a = MinInt /\ b = 0 - 1
    THEN {Abort("attempt to calculate the remainder with overflow")}
    ELSE {Value(TruncRem(a, b))}

\* a fault for the range of cmp: the difference itself
Ordering_as_difference(a, b) == a - b

\* a fault for the comparison: the sign of the wrapped difference
Ordering_of_difference(a, b) ==
    IF Wrap(a - b) < 0 THEN 0 - 1 ELSE IF Wrap(a - b) = 0 THEN 0 ELSE 1

\* i64::cmp as -1, 0, 1
Ordering(a, b) == IF a < b THEN 0 - 1 ELSE IF a = b THEN 0 ELSE 1

(***************************************************************************)
(* Real arithmetic.  IEEE-754 arithmetic is not computed: the result of    *)
(* +, -, *, / and powf is any bit pattern of FloatSample.  ceil and floor  *)
(* are computed from the bit pattern.                                      *)
(***************************************************************************)
FloatSample == {0, F64NaN}

FloatArith(a, b) == {Value(f2i(f)) : f \in FloatSample}

\* val.ceil() as i64 (up) and val.floor() as i64 after the range check of
\* CEIL and FLOR: Err(kind) when val > i64::MAX as f64 or val < i64::MIN as f64
RoundToInt(f, up, kind) ==
    LET neg == f \div SignBit = 1
        e == (f % SignBit) \div Pow2(MantBits)
        m == f % Pow2(MantBits)
        E == e - 1023
        sig == Pow2(MantBits) + m
        whole == IF E >= MantBits THEN sig * Pow2(E - MantBits)
                 ELSE sig \div Pow2(MantBits - E)
        exact == E >= MantBits \/ sig % Pow2(MantBits - E) = 0
        mag == IF exact \/ (up = neg) THEN whole ELSE whole + 1
        overflow == [res |-> "Err", val |-> 0, kind |-> kind]
    IN  IF e = 2047 THEN (IF m # 0 THEN Value(0) ELSE overflow)
        ELSE IF e = 0 THEN (IF m = 0 THEN Value(0)
                            ELSE IF up /\ ~neg THEN Value(1)
                            ELSE IF ~up /\ neg THEN Value(0 - 1)
                            ELSE Value(0))
        ELSE IF E < 0 THEN (IF up /\ ~neg THEN Value(1)
                            ELSE IF ~up /\ neg THEN Value(0 - 1)
                            ELSE Value(0))
        ELSE IF E > IntBits - 1 \/ (E = IntBits - 1 /\ m # 0) THEN overflow
        ELSE IF E = IntBits - 1 THEN (IF neg THEN Value(MinInt) ELSE Value(MaxInt))
        ELSE Value(IF neg THEN 0 - mag ELSE mag)

(***************************************************************************)
(* VM::step.  An arm is given the operands it consumed (vals, in the order *)
(* of ArmOperands) and the vm after them, and gives the set of its         *)
(* outcomes.                                                               *)
(***************************************************************************)
\* a fault for the register instructions: the result sets the comparison
\* flag too, as the arithmetic of a processor with a status register does
set_reg_flagged(vm, reg, results) ==
    {IF r.res = "Ok" THEN StepOk([vm EXCEPT !.regs[reg] = r.val, !.cmp = Ordering(r.val, 0)])
     ELSE IF r.res = "Err" THEN StepErr(vm, r.kind)
     ELSE StepPanic(vm, r.kind) : r \in results}

\* self.regs[reg] = <result>: the arms that compute a value and store it
set_reg(vm, reg, results) ==
    {IF r.res = "Ok" THEN StepOk([vm EXCEPT !.regs[reg] = r.val])
     ELSE IF r.res = "Err" THEN StepErr(vm, r.kind)
     ELSE StepPanic(vm, r.kind) : r \in results}

\* a fault for the stack bounds: the overflow test admits sp == STACK_SIZE
step_PUSH_late(vm, val) ==
    IF vm.sp > STACK_SIZE THEN {StepErr(vm, "Stack overflow")}
    ELSE IF vm.sp \notin DOMAIN vm.stack THEN {StepPanic(vm, "index out of bounds: stack")}
    ELSE {StepOk([vm EXCEPT !.stack[vm.sp] = val, !.sp = vm.sp + 1])}

\* PUSH and PUSHL after their operand: val is regs[reg] or the literal
step_PUSH(vm, val) ==
    IF vm.sp >= STACK_SIZE THEN {StepErr(vm, "Stack overflow")}
    ELSE IF vm.sp \notin DOMAIN vm.stack THEN {StepPanic(vm, "index out of bounds: stack")}
    ELSE {StepOk([vm EXCEPT !.stack[vm.sp] = val, !.sp = vm.sp + 1])}

\* a fault for POP: the register is loaded before sp is decremented
step_POP_above(vm, reg) ==
    IF vm.sp = 0 THEN {StepErr(vm, "Stack underflow")}
    ELSE IF vm.sp \notin DOMAIN vm.stack
    THEN {StepPanic([vm EXCEPT !.sp = vm.sp - 1], "index out of bounds: stack")}
    ELSE {StepOk([vm EXCEPT !.sp = vm.sp - 1, !.regs[reg] = vm.stack[vm.sp]])}

step_POP(vm, reg) ==
    IF vm.sp = 0 THEN {StepErr(vm, "Stack underflow")}
    ELSE IF (vm.sp - 1) \notin DOMAIN vm.stack
    THEN {StepPanic([vm EXCEPT !.sp = vm.sp - 1], "index out of bounds: stack")}
    ELSE {StepOk([vm EXCEPT !.sp = vm.sp - 1, !.regs[reg] = vm.stack[vm.sp - 1]])}

\* for reg in 0..frame_size { stack[sp] = regs[reg]; sp += 1 }
RECURSIVE pushrf_loop(_, _, _)
pushrf_loop(vm, reg, frame_size) ==
    IF reg >= frame_size THEN StepOk(vm)
    ELSE IF vm.sp \notin DOMAIN vm.stack THEN StepPanic(vm, "index out of bounds: stack")
    ELSE IF reg \notin DOMAIN vm.regs THEN StepPanic(vm, "index out of bounds: regs")
    ELSE pushrf_loop([vm EXCEPT !.stack[vm.sp] = vm.regs[reg], !.sp = vm.sp + 1],
                     reg + 1, frame_size)

\* a fault for PUSHRF: the first register is pushed before the free slots
\* are counted
step_PUSHRF_partial(vm, frame_size) ==
    IF frame_size < 1 \/ frame_size >= NUM_REGISTERS
    THEN {StepErr(vm, "PUSHRF frame size out of bounds")}
    ELSE IF vm.sp + frame_size >= STACK_SIZE
    THEN {StepErr(IF vm.sp \in DOMAIN vm.stack
                  THEN [vm EXCEPT !.stack[vm.sp] = vm.regs[0], !.sp = vm.sp + 1]
                  ELSE vm,
                  "PUSHRF stack overflow")}
    ELSE {pushrf_loop(vm, 0, frame_size)}

\* a fault for PUSHRF: a frame of all the registers is admitted
step_PUSHRF_wide(vm, frame_size) ==
    IF frame_size < 1 \/ frame_size > NUM_REGISTERS
    THEN {StepErr(vm, "PUSHRF frame size out of bounds")}
    ELSE IF vm.sp + frame_size >= STACK_SIZE THEN {StepErr(vm, "PUSHRF stack overflow")}
    ELSE {pushrf_loop(vm, 0, frame_size)}

step_PUSHRF(vm, frame_size) ==
    IF frame_size < 1 \/ frame_size >= NUM_REGISTERS
    THEN {StepErr(vm, "PUSHRF frame size out of bounds")}
    ELSE IF vm.sp + frame_size >= STACK_SIZE THEN {StepErr(vm, "PUSHRF stack overflow")}
    ELSE {pushrf_loop(vm, 0, frame_size)}

\* for reg in (0..frame_size).rev() { sp -= 1; regs[reg] = stack[sp] }
RECURSIVE poprf_loop(_, _)
poprf_loop(vm, reg) ==
    IF reg < 0 THEN StepOk(vm)
    ELSE IF vm.sp = 0 THEN StepPanic(vm, "attempt to subtract with overflow")
    ELSE IF (vm.sp - 1) \notin DOMAIN vm.stack
    THEN StepPanic([vm EXCEPT !.sp = vm.sp - 1], "index out of bounds: stack")
    ELSE IF reg \notin DOMAIN vm.regs
    THEN StepPanic([vm EXCEPT !.sp = vm.sp - 1], "index out of bounds: regs")
    ELSE poprf_loop([vm EXCEPT !.sp = vm.sp - 1, !.regs[reg] = vm.stack[vm.sp - 1]],
                    reg - 1)

\* a fault for POPRF: the loop starts one register too low
step_POPRF_short(vm, frame_size) ==
    IF frame_size < 1 \/ frame_size >= NUM_REGISTERS
    THEN {StepErr(vm, "POPRF frame size out of bounds")}
    ELSE IF vm.sp < frame_size THEN {StepErr(vm, "POPRF stack underflow")}
    ELSE {poprf_loop(vm, frame_size - 2)}

step_POPRF(vm, frame_size) ==
    IF frame_size < 1 \/ frame_size >= NUM_REGISTERS
    THEN {StepErr(vm, "POPRF frame size out of bounds")}
    ELSE IF vm.sp < frame_size THEN {StepErr(vm, "POPRF stack underflow")}
    ELSE {poprf_loop(vm, frame_size - 1)}

\* a fault for the jumps: JLE taken only on -1
jump_condition_strict(op, flag) ==
    CASE op = JMP -> TRUE
      [] op = JEQ -> flag = 0
      [] op = JLT -> flag = 0 - 1
      [] op = JLE -> flag = 0 - 1
      [] op = JGT -> flag = 1
      [] op = JGE -> flag >= 0
      [] op = JNE -> flag # 0

\* a fault for the jumps: JLT and JGT test for each other's order
jump_condition_mirrored(op, flag) ==
    CASE op = JMP -> TRUE
      [] op = JEQ -> flag = 0
      [] op = JLT -> flag = 1
      [] op = JLE -> flag <= 0
      [] op = JGT -> flag = 0 - 1
      [] op = JGE -> flag >= 0
      [] op = JNE -> flag # 0

\* the test of self.cmp in the arm of each jump
jump_condition(op, flag) ==
    CASE op = JMP -> TRUE
      [] op = JEQ -> flag = 0
      [] op = JLT -> flag = 0 - 1
      [] op = JLE -> flag <= 0
      [] op = JGT -> flag = 1
      [] op = JGE -> flag >= 0
      [] op = JNE -> flag # 0

\* a fault for CALL: the overflow test rejects the last free slot
step_CALL_early(vm, addr) ==
    IF vm.csp + 1 >= CALL_STACK_SIZE THEN {StepErr(vm, "Call stack overflow")}
    ELSE IF vm.csp \notin DOMAIN vm.call_stack
    THEN {StepPanic(vm, "index out of bounds: call_stack")}
    ELSE {StepOk([vm EXCEPT !.call_stack[vm.csp] = vm.pc,
                            !.csp = vm.csp + 1,
                            !.pc = addr])}

step_CALL(vm, addr) ==
    IF vm.csp >= CALL_STACK_SIZE THEN {StepErr(vm, "Call stack overflow")}
    ELSE IF vm.csp \notin DOMAIN vm.call_stack
    THEN {StepPanic(vm, "index out of bounds: call_stack")}
    ELSE {StepOk([vm EXCEPT !.call_stack[vm.csp] = vm.pc,
                            !.csp = vm.csp + 1,
                            !.pc = addr])}

\* a fault for the returns: RET takes the oldest return address
step_RET_oldest(vm) ==
    IF vm.csp = 0 THEN {StepErr(vm, "Call stack underflow")}
    ELSE {StepOk([vm EXCEPT !.csp = vm.csp - 1, !.pc = vm.call_stack[0]])}

step_RET(vm) ==
    IF vm.csp = 0 THEN {StepErr(vm, "Call stack underflow")}
    ELSE IF (vm.csp - 1) \notin DOMAIN vm.call_stack
    THEN {StepPanic([vm EXCEPT !.csp = vm.csp - 1], "index out of bounds: call_stack")}
    ELSE {StepOk([vm EXCEPT !.csp = vm.csp - 1, !.pc = vm.call_stack[vm.csp - 1]])}

\* a line of debug output: the instruction, its register and the values printed
DebugLine(what, reg, vals) == [what |-> what, reg |-> reg, vals |-> vals]

\* match op { ... }: the arm of op after its operands v
step_arm(op, v, vm) ==
    CASE op = HALT -> {StepResult(vm, FALSE, <<>>)}
      [] op = SET -> set_reg(vm, v[2], {Value(v[1])})
      [] op = SETF -> set_reg(vm, v[2], {Value(f2i(v[1]))})
      [] op = MOV -> set_reg(vm, v[2], {Value(vm.regs[v[1]])})
      [] op = PUSH -> step_PUSH(vm, vm.regs[v[1]])
      [] op = PUSHL -> step_PUSH(vm, v[1])
      [] op = POP -> step_POP(vm, v[1])
      [] op = PUSHRF -> step_PUSHRF(vm, v[1])
      [] op = POPRF -> step_POPRF(vm, v[1])
      [] op = ADD -> set_reg(vm, v[2], Checked(vm.regs[v[2]] + vm.regs[v[1]]))
      [] op = ADDL -> set_reg(vm, v[2], Checked(vm.regs[v[2]] + v[1]))
      [] op = SUB -> set_reg(vm, v[2], Checked(vm.regs[v[2]] - vm.regs[v[1]]))
      [] op = SUBL -> set_reg(vm, v[2], Checked(vm.regs[v[2]] - v[1]))
      [] op = SUB2L -> set_reg(vm, v[2], Checked(v[1] - vm.regs[v[2]]))
      [] op = MUL -> set_reg(vm, v[2], IntMul(vm.regs[v[2]], vm.regs[v[1]]))
      [] op = MULL -> set_reg(vm, v[2], IntMul(vm.regs[v[2]], v[1]))
      [] op = DIV -> set_reg(vm, v[2], IntDiv(vm.regs[v[2]], vm.regs[v[1]]))
      [] op = DIVL -> set_reg(vm, v[2], IntDiv(vm.regs[v[2]], v[1]))
      [] op = DIV2L -> set_reg(vm, v[2], IntDiv(v[1], vm.regs[v[2]]))
      [] op = MOD -> set_reg(vm, v[2], IntRem(vm.regs[v[2]], vm.regs[v[1]]))
      [] op = INC -> set_reg(vm, v[1], Checked(vm.regs[v[1]] + 1))
      [] op = DEC -> set_reg(vm, v[1], Checked(vm.regs[v[1]] - 1))
      [] op \in {ADDF, SUBF, MULF, DIVF, POW, POW2}
           -> set_reg(vm, v[2], FloatArith(i2f(vm.regs[v[1]]), i2f(vm.regs[v[2]])))
      [] op \in {ADDFL, SUBFL, SUBF2L, MULFL, DIVFL, DIVF2L, POWL, POW2L}
           -> set_reg(vm, v[2], FloatArith(v[1], i2f(vm.regs[v[2]])))
      [] op = CEIL -> set_reg(vm, v[1], {RoundToInt(i2f(vm.regs[v[1]]), TRUE, "CEIL overflow")})
      [] op = FLOR
           -> set_reg(vm, v[1], {RoundToInt(i2f(vm.regs[v[1]]), FALSE, "FLOR overflow")})
      [] op = CMP -> {StepOk([vm EXCEPT !.cmp = Ordering(vm.regs[v[2]], vm.regs[v[1]])])}
      [] op = CMPL -> {StepOk([vm EXCEPT !.cmp = Ordering(vm.regs[v[2]], v[1])])}
      [] op \in {JMP, JEQ, JLT, JLE, JGT, JGE, JNE}
           -> {StepOk(IF jump_condition(op, vm.cmp) THEN [vm EXCEPT !.pc = v[1]] ELSE vm)}
      [] op = CALL -> step_CALL(vm, v[1])
      [] op = RET -> step_RET(vm)
      [] op = DBGREG
           -> {StepResult(vm, TRUE, <<DebugLine("DBGREG", v[1], <<vm.regs[v[1]]>>)>>)}
      [] op = DBGREGF
           -> {StepResult(vm, TRUE, <<DebugLine("DBGREGF", v[1], <<i2f(vm.regs[v[1]])>>)>>)}
      [] op = DBGREGS
           -> {StepResult(vm, TRUE,
                          <<DebugLine("DBGREGS", 0,
                                      [i \in 1 .. NUM_REGISTERS |-> vm.regs[i - 1]])>>)}

\* VM::step: consume the opcode, consume the operands of its arm, run the arm
step(vm) ==
    LET Arm(op, c) == IF c.res # "Ok" THEN {StepFail(c)} ELSE step_arm(op, c.vals, c.vm)
        Dispatch(o) ==
            IF o.res # "Ok" THEN {StepFail(o)}
            ELSE Arm(o.val, consume_operands(o.vm, ArmOperands(o.val), 1, <<>>))
    IN  Dispatch(consume_op(vm))

(***************************************************************************)
(* Source programs.  The chunks of a line are written with these helpers.  *)
(***************************************************************************)
RECURSIVE Dec(_)
Dec(n) ==
    IF n < 10 THEN <<DigitChars[n + 1]>>
    ELSE Dec(n \div 10) \o <<DigitChars[(n % 10) + 1]>>

IntTok(n) == IF n < 0 THEN <<"-">> \o Dec(0 - n) ELSE Dec(n)

RegTok(n) == <<"r">> \o Dec(n)

LabelA == <<"a">>

LabelB == <<"b">>

\* a label declaration line
Decl(name) == <<name \o <<":">>>>

RealTokPi == <<"3", ".", "1", "4">>

\* an instruction line of opcode op with the operands its shape asks for
Line(op, int, real, reg1, reg2, label) ==
    CASE Shape(op) = "Nil" -> <<OpNames[op + 1]>>
      [] Shape(op) = "Reg" -> <<OpNames[op + 1], RegTok(reg2)>>
      [] Shape(op) = "IntReg" -> <<OpNames[op + 1], IntTok(int), RegTok(reg2)>>
      [] Shape(op) = "RegReg" -> <<OpNames[op + 1], RegTok(reg1), RegTok(reg2)>>
      [] Shape(op) = "Addr" -> <<OpNames[op + 1], label>>
      [] Shape(op) = "Int" -> <<OpNames[op + 1], IntTok(int)>>
      [] Shape(op) = "RealReg" -> <<OpNames[op + 1], real, RegTok(reg2)>>

\* all sequences over A of length at most n
SeqsUpTo(A, n) == UNION {[1 .. k -> A] : k \in 0 .. n}

\* the values integer operands are drawn from
IntSample == {MinInt, 0 - 1, 0, 1, 2, MaxInt}

MaxLines == 1

\* every program of at most MaxLines lines: one line per opcode, a label and
\* a register the interpreter does not have
ShortPrograms ==
    SeqsUpTo({Line(op, 2, RealTokPi, 0, 1, LabelA) : op \in OpCodes}
                 \cup {Decl(LabelA), Line(INC, 0, RealTokPi, 0, NUM_REGISTERS, LabelA)},
             MaxLines)

Jumps == {JMP, JEQ, JLT, JLE, JGT, JGE, JNE}

\* SET y r0 / SET x r1 / CMP r0 r1 (or CMPL y r1) / <jump> a / INC r2 / a: / HALT
CompareJump(x, y, compare, jump) ==
    << Line(SET, y, RealTokPi, 0, 0, LabelA),
       Line(SET, x, RealTokPi, 0, 1, LabelA),
       Line(compare, y, RealTokPi, 0, 1, LabelA),
       Line(jump, 0, RealTokPi, 0, 0, LabelA),
       Line(INC, 0, RealTokPi, 0, 2, LabelA),
       Decl(LabelA),
       Line(HALT, 0, RealTokPi, 0, 0, LabelA) >>

ComparePrograms ==
    {CompareJump(x, y, compare, jump) :
        x \in IntSample, y \in IntSample, compare \in {CMP, CMPL}, jump \in Jumps}

MaxControlLines == 4

\* every program of at most MaxControlLines lines of calls, returns and labels
ControlPrograms ==
    SeqsUpTo({Line(CALL, 0, RealTokPi, 0, 0, LabelA), Line(CALL, 0, RealTokPi, 0, 0, LabelB),
              Line(RET, 0, RealTokPi, 0, 0, LabelA), Line(HALT, 0, RealTokPi, 0, 0, LabelA),
              Decl(LabelA), Decl(LabelB)},
             MaxControlLines)

\* CALL a / a: / CALL b / b: / RET    and
\* CALL a / HALT / a: / CALL b / RET / b: / RET
CallPrograms ==
    { << Line(CALL, 0, RealTokPi, 0, 0, LabelA), Decl(LabelA),
         Line(CALL, 0, RealTokPi, 0, 0, LabelB), Decl(LabelB),
         Line(RET, 0, RealTokPi, 0, 0, LabelA) >>,
      << Line(CALL, 0, RealTokPi, 0, 0, LabelA), Line(HALT, 0, RealTokPi, 0, 0, LabelA),
         Decl(LabelA), Line(CALL, 0, RealTokPi, 0, 0, LabelB),
         Line(RET, 0, RealTokPi, 0, 0, LabelA), Decl(LabelB),
         Line(RET, 0, RealTokPi, 0, 0, LabelA) >> }

MaxStackLines == 3

\* every program of at most MaxStackLines lines of stack instructions and a loop
StackPrograms ==
    SeqsUpTo({Line(PUSHL, 2, RealTokPi, 0, 0, LabelA), Line(PUSH, 0, RealTokPi, 0, 1, LabelA),
              Line(POP, 0, RealTokPi, 0, 1, LabelA), Line(PUSHRF, 2, RealTokPi, 0, 0, LabelA),
              Line(POPRF, 2, RealTokPi, 0, 0, LabelA), Line(SET, 2, RealTokPi, 0, 1, LabelA),
              Decl(LabelA), Line(JMP, 0, RealTokPi, 0, 0, LabelA),
              Line(HALT, 0, RealTokPi, 0, 0, LabelA)},
             MaxStackLines)

MaxFrameLines == 2

\* SET 1 r0 / SET 2 r1 / k times PUSHL 2 / PUSHRF n (or nothing) / at most
\* MaxFrameLines lines that overwrite a register, pop, push or nest a frame /
\* POPRF n, for every k up to a full stack and every n from -1 to NUM_REGISTERS
FramePrograms ==
    {<<Line(SET, 1, RealTokPi, 0, 0, LabelA), Line(SET, 2, RealTokPi, 0, 1, LabelA)>>
        \o [i \in 1 .. k |-> Line(PUSHL, 2, RealTokPi, 0, 0, LabelA)]
        \o (IF save THEN <<Line(PUSHRF, n, RealTokPi, 0, 0, LabelA)>> ELSE <<>>)
        \o middle
        \o <<Line(POPRF, n, RealTokPi, 0, 0, LabelA)>> :
        k \in 0 .. STACK_SIZE, n \in (0 - 1) .. NUM_REGISTERS, save \in BOOLEAN,
        middle \in SeqsUpTo({Line(SET, 0, RealTokPi, 0, 0, LabelA),
                             Line(POP, 0, RealTokPi, 0, 1, LabelA),
                             Line(PUSHL, 0, RealTokPi, 0, 0, LabelA),
                             Line(PUSHRF, 1, RealTokPi, 0, 0, LabelA),
                             Line(POPRF, 1, RealTokPi, 0, 0, LabelA)},
                            MaxFrameLines)}

IntOps == {ADD, ADDL, SUB, SUBL, SUB2L, MUL, MULL, DIV, DIVL, DIV2L, MOD, INC, DEC}

\* SET x r0 / SET y r1 / an integer instruction with destination r1 and with
\* source r0, r1 or the literal x
ArithPrograms ==
    {<<Line(SET, x, RealTokPi, 0, 0, LabelA), Line(SET, y, RealTokPi, 0, 1, LabelA),
       Line(op, x, RealTokPi, ra, 1, LabelA)>> :
        x \in IntSample, y \in IntSample, op \in IntOps, ra \in {0, 1}}

\* every program of at most MaxControlLines lines of a parent label, a
\* sublabel, jumps to them and an instruction of one atom more
LabelPrograms ==
    SeqsUpTo({Decl(LabelA), Decl(<<".", "x">>), Line(JMP, 0, RealTokPi, 0, 0, LabelA),
              Line(JMP, 0, RealTokPi, 0, 0, <<".", "x">>),
              Line(INC, 0, RealTokPi, 0, 0, LabelA)},
             MaxControlLines)

MaxScopeLines == 2

\* two parent labels, equal or different, each followed by at most
\* MaxScopeLines lines that declare the sublabel .x, jump to it or increment
ScopePrograms ==
    {<<Decl(p1)>> \o body1 \o <<Decl(p2)>> \o body2 :
        p1 \in {LabelA, LabelB}, p2 \in {LabelA, LabelB},
        body1 \in SeqsUpTo({Decl(<<".", "x">>), Line(JMP, 0, RealTokPi, 0, 0, <<".", "x">>),
                            Line(INC, 0, RealTokPi, 0, 0, LabelA)},
                           MaxScopeLines),
        body2 \in SeqsUpTo({Decl(<<".", "x">>), Line(JMP, 0, RealTokPi, 0, 0, <<".", "x">>),
                            Line(INC, 0, RealTokPi, 0, 0, LabelA)},
                           MaxScopeLines)}

MaxDebugLines == 3

\* at most MaxDebugLines lines that print r1 or all registers or increment
\* r1, and HALT
DebugPrograms ==
    {body \o <<Line(HALT, 0, RealTokPi, 0, 0, LabelA)>> :
        body \in SeqsUpTo({Line(DBGREG, 0, RealTokPi, 0, 1, LabelA),
                           Line(DBGREGF, 0, RealTokPi, 0, 1, LabelA),
                           Line(DBGREGS, 0, RealTokPi, 0, 1, LabelA),
                           Line(INC, 0, RealTokPi, 0, 1, LabelA)},
                          MaxDebugLines)}

\* the sources that are assembled and run
Sources ==
    ShortPrograms \cup ComparePrograms \cup ControlPrograms \cup StackPrograms
        \cup CallPrograms \cup FramePrograms \cup ArithPrograms \cup LabelPrograms
        \cup DebugPrograms

RealToks ==
    {RealTokPi, <<"-", "0", ".", "5">>, <<"N", "a", "N">>, <<"i", "n", "f">>,
     <<"-", "i", "n", "f">>, <<"0">>, <<"2", ".">>}

RegSample == {0, NUM_REGISTERS - 1, 255}

\* a: / one instruction, over the operand values
OperandPrograms ==
    {<<Decl(LabelA), Line(op, int, real, reg, reg, LabelA)>> :
        op \in OpCodes, int \in IntSample, real \in RealToks, reg \in RegSample}

\* a: / one instruction with the operands of its shape and one chunk more
TrailerPrograms ==
    {<<Decl(LabelA), Line(op, 2, RealTokPi, 0, 1, LabelA) \o <<extra>>>> :
        op \in OpCodes, extra \in {<<"x">>, <<"2">>, RegTok(0)}}

MaxBlankLines == 2

\* lines at fault: an unknown opcode, a missing and a malformed operand of
\* each kind, a trailing chunk, and a reference to a label declared nowhere
FaultyLines ==
    {<<<<"X">>>>, <<OpNames[INC + 1]>>, <<OpNames[INC + 1], <<"x">>>>,
     <<OpNames[INC + 1], <<"r", "x">>>>, <<OpNames[PUSHL + 1]>>,
     <<OpNames[SET + 1], <<"x">>, RegTok(0)>>, <<OpNames[SETF + 1]>>,
     <<OpNames[SETF + 1], <<"x">>, RegTok(0)>>, <<OpNames[HALT + 1], <<"2">>>>,
     <<OpNames[JMP + 1]>>, <<OpNames[JMP + 1], LabelB>>}

\* at most MaxBlankLines lines that are empty, a comment or an instruction,
\* and then a line at fault
ErrorPrograms ==
    {pre \o <<bad>> :
        pre \in SeqsUpTo({<<>>, <<<<"/", "/">>, <<"x">>>>,
                          Line(INC, 0, RealTokPi, 0, 0, LabelA)},
                         MaxBlankLines),
        bad \in FaultyLines}

\* a label declaration followed on its line by a chunk, by an instruction or
\* by another declaration, and then a jump to the label
LabelTrailerPrograms ==
    {<<Decl(LabelA) \o extra, Line(JMP, 0, RealTokPi, 0, 0, LabelA)>> :
        extra \in {<<<<"x">>>>, Line(INC, 0, RealTokPi, 0, 0, LabelA), Decl(LabelB)}}

\* the sources that are assembled, serialized and deserialized
AsmSources ==
    Sources \cup OperandPrograms \cup ScopePrograms \cup TrailerPrograms \cup ErrorPrograms
        \cup LabelTrailerPrograms

(***************************************************************************)
(* The listing of a stream (displayable_code).  The text of a real is not  *)
(* computed: it is written as the bit pattern of the value.                *)
(***************************************************************************)
\* Display for Code, without alignment
Code_fmt(atom) ==
    CASE atom.tag = "Op" -> <<"ESC[1m">> \o OpNames[atom.val + 1] \o <<"ESC[0m">>
      [] atom.tag = "Reg" -> <<"r">> \o Dec(atom.val)
      [] atom.tag = "Int" -> IntTok(atom.val) \o <<"i">>
      [] atom.tag = "Addr" -> <<"addr(">> \o Dec(atom.val) \o <<")">>
      [] atom.tag = "Real" -> <<"bits:">> \o IntTok(atom.val) \o <<"f">>

\* format!("{} {} {}", code[idx], code[idx + 1], code[idx + 2]): the opcode at
\* idx and its n operands
RECURSIVE format_line(_, _, _)
format_line(code, idx, n) ==
    IF n = 0 THEN Code_fmt(code[idx + 1])
    ELSE format_line(code, idx, n - 1) \o <<" ">> \o Code_fmt(code[idx + 1 + n])

\* the loop of displayable_code from idx on: a line per instruction, and the
\* index of the instruction mapped to the number of its line
RECURSIVE display_loop(_, _, _, _)
display_loop(code, idx, lines, addr2idx) ==
    IF idx >= Len(code)
    THEN [res |-> "Ok", kind |-> "", lines |-> lines, addr2idx |-> addr2idx]
    ELSE IF code[idx + 1].tag # "Op"
    THEN [res |-> "Panic", kind |-> "Expected an opcode", lines |-> lines,
          addr2idx |-> addr2idx]
    ELSE IF idx + ShapeArity(Shape(code[idx + 1].val)) >= Len(code)
    THEN [res |-> "Panic", kind |-> "index out of bounds: code", lines |-> lines,
          addr2idx |-> addr2idx]
    ELSE display_loop(code, idx + 1 + ShapeArity(Shape(code[idx + 1].val)),
                      Append(lines, format_line(code, idx,
                                                ShapeArity(Shape(code[idx + 1].val)))),
                      (idx :> Len(lines)) @@ addr2idx)

\* a fault for the inverse map: a line is mapped to the atom of its own number
displayable_code_by_atom(code) ==
    LET Result(r) ==
            [res |-> r.res, kind |-> r.kind, lines |-> r.lines, addr2idx |-> r.addr2idx,
             idx2addr |-> [i \in {r.addr2idx[a] : a \in DOMAIN r.addr2idx} |-> i]]
    IN  Result(display_loop(code, 0, <<>>, <<>>))

\* displayable_code: the lines, addr2idx, and idx2addr collected from the
\* pairs of addr2idx turned around
displayable_code(code) ==
    LET Result(r) ==
            [res |-> r.res, kind |-> r.kind, lines |-> r.lines, addr2idx |-> r.addr2idx,
             idx2addr |-> [i \in {r.addr2idx[a] : a \in DOMAIN r.addr2idx} |->
                              CHOOSE a \in DOMAIN r.addr2idx : r.addr2idx[a] = i]]
    IN  Result(display_loop(code, 0, <<>>, <<>>))

(***************************************************************************)
(* The commands of VM::debugger.  An input is the command that the first   *)
(* token of the line selects, "empty" for a line without a token and       *)
(* "unknown" for any other token, and its argument: missing, invalid (no   *)
(* usize) or the number n.  breakpoints is a Vec that never holds an       *)
(* address twice and is only searched: it is kept as a set.  What the      *)
(* debugger prints is appended to stdout, line by line.                    *)
(***************************************************************************)
Input(name, arg, n) == [name |-> name, arg |-> arg, n |-> n]

\* a fault for the breakpoints: pc is never found among them
at_breakpoint_never(breakpoints, at) == FALSE

\* breakpoints.contains(&self.pc)
at_breakpoint(breakpoints, at) == at \in breakpoints

\* a fault for the prompt: no input leaves the iteration before its step
continues_never(c, vm) == FALSE

\* the inputs that `continue` with the next iteration, past the step of this
\* one
continues(c, vm) ==
    \/ c.name \in {"empty", "unknown"}
    \/ c.name \in {"stack", "breakpoint", "code"} /\ c.arg # "number"
    \/ c.name = "stack" /\ (c.n = 0 \/ vm.sp = 0)

\* the arm of a command: allowed_to_run, wait_for_input and breakpoints after
\* it, the lines it prints, and whether it returns or panics
command(c, vm, allowed_to_run, breakpoints, listing) ==
    LET Expected(missing, invalid) ==
            <<DebugLine(IF c.arg = "missing" THEN missing ELSE invalid, 0, <<>>)>>
        Shown == IF c.n <= vm.sp THEN c.n ELSE vm.sp
        Window(cur, w, len) ==
            [k \in 1 .. ((IF cur + w >= len THEN len ELSE cur + w)
                             - (IF cur >= w THEN cur - w ELSE 0)) |->
                LET idx == (IF cur >= w THEN cur - w ELSE 0) + k - 1
                IN  DebugLine(IF idx = cur THEN "code >" ELSE "code  ",
                              listing.idx2addr[idx], <<idx>>)]
    IN  [allowed_to_run |-> CASE c.name \in {"step", "play"} -> TRUE
                              [] c.name \in {"empty", "exit"} -> allowed_to_run
                              [] OTHER -> FALSE,
         wait_for_input |-> c.name # "play",
         breakpoints |-> IF c.name = "breakpoint" /\ c.arg = "number"
                         THEN IF c.n \in breakpoints THEN breakpoints \ {c.n}
                              ELSE breakpoints \cup {c.n}
                         ELSE breakpoints,
         returns |-> c.name = "exit",
         panics |-> c.name = "code" /\ c.arg = "number" /\ vm.pc \notin DOMAIN listing.addr2idx,
         output |->
             CASE c.name = "regs"
                    -> <<DebugLine("regs", 0, [i \in 1 .. NUM_REGISTERS |-> vm.regs[i - 1]])>>
               [] c.name = "stack" /\ c.arg # "number" 
                    -> Expected("Expected a number of entries to print",
                                "Expected a valid number of entries to print")
               [] c.name = "stack" /\ c.arg = "number"
                    -> <<DebugLine("SP", vm.sp, [i \in 1 .. Shown |-> vm.stack[vm.sp - i]])>>
               [] c.name = "breakpoint" /\ c.arg # "number" 
                    -> Expected("Expected an address", "Expected a valid address")
               [] c.name = "breakpoint" /\ c.arg = "number"
                    -> <<DebugLine(IF c.n \in breakpoints THEN "Breakpoint removed"
                                   ELSE "Breakpoint set", c.n, <<>>)>>
               [] c.name = "code" /\ c.arg # "number" 
                    -> Expected("Expected a window size", "Expected a valid window size")
               [] c.name = "code" /\ c.arg = "number"
                    -> IF vm.pc \in DOMAIN listing.addr2idx
                       THEN Window(listing.addr2idx[vm.pc], c.n, Len(listing.lines))
                       ELSE <<>>
               [] c.name = "unknown" -> <<DebugLine("Unknown command", 0, <<>>)>>
               [] OTHER -> <<>>]

(***************************************************************************)
(* State                                                                   *)
(***************************************************************************)
VARIABLES src, asm, bin, dec, stage,
          code, regs, stack, call_stack, pc, sp, csp, cmp,
          capture_output, captured_output, stdout,
          state, err, steps, last, calls, pushed, frames,
          listing, wait_for_input, allowed_to_run, breakpoints, cmd

pipeline == <<src, asm, bin, dec, stage>>

machine == <<code, regs, stack, call_stack, pc, sp, csp, cmp>>

running ==
    <<capture_output, captured_output, stdout, state, err, steps, last, calls, pushed, frames>>

\* the locals of VM::debugger, and the input that its last iteration read
debugging == <<listing, wait_for_input, allowed_to_run, breakpoints, cmd>>

vars == <<pipeline, machine, running, debugging>>

\* the interpreter as a record
VM == [code |-> code, regs |-> regs, stack |-> stack, call_stack |-> call_stack,
       pc |-> pc, sp |-> sp, csp |-> csp, cmp |-> cmp]

NoResult == [res |-> "None", val |-> <<>>, kind |-> ""]

NotAssembled == ParseErr("not assembled", FALSE, 0, NoOp)

\* a call that has not returned: the index of the instruction following the
\* CALL and csp before the CALL
NoFrame == [ret |-> 0 - 1, csp |-> 0 - 1]

\* a register frame saved by PUSHRF: sp before the PUSHRF, its frame size, the
\* registers before it, and whether none of its slots has been popped since
NoSave == [sp |-> 0 - 1, n |-> 0, regs |-> VM_new(<<>>).regs, intact |-> FALSE]

\* the step that was executed last: its opcode (NoOp when the opcode could not
\* be read), its outcome, the interpreter before it (without the stream, which
\* no step changes), for CALL and RET the call it opened or closed, and for
\* PUSHRF and POPRF the register frame it saved or found
NoStep ==
    [op |-> NoOp, res |-> "None", kind |-> "", pre |-> VM_new(<<>>), frame |-> NoFrame,
     save |-> NoSave]

InstallVM(vm) ==
    /\ code = vm.code
    /\ regs = vm.regs
    /\ stack = vm.stack
    /\ call_stack = vm.call_stack
    /\ pc = vm.pc
    /\ sp = vm.sp
    /\ csp = vm.csp
    /\ cmp = vm.cmp

NoListing == [res |-> "None", kind |-> "", lines |-> <<>>, addr2idx |-> <<>>, idx2addr |-> <<>>]

NoInput == Input("", "missing", 0)

\* debugger has not been called
NoDebugger ==
    /\ listing = NoListing
    /\ wait_for_input = TRUE
    /\ allowed_to_run = FALSE
    /\ breakpoints = {}
    /\ cmd = NoInput

FreshRun ==
    /\ captured_output = <<>>
    /\ stdout = <<>>
    /\ err = ""
    /\ steps = 0
    /\ last = NoStep
    /\ calls = <<>>
    /\ pushed = <<>>
    /\ frames = <<>>

\* an interpreter built by VM::new on the stream of an assembled source,
\* with or without capture_output()
Init ==
    /\ src \in Sources
    /\ asm = parse_string(src)
    /\ asm.ok
    /\ bin = NoResult
    /\ dec = NoResult
    /\ stage = "run"
    /\ InstallVM(VM_new(asm.code))
    /\ capture_output \in BOOLEAN
    /\ state = "ready"
    /\ FreshRun
    /\ NoDebugger

(***************************************************************************)
(* VM::run: the loop around step.  state is "ready" before the first step, *)
(* "running" between steps, and "halted" (run returned Ok), "error" (run   *)
(* returned Err) or "panic" (the process aborted) afterwards.  calls is a   *)
(* history of the run: the calls that have not returned yet, oldest first. *)
(* pushed and frames are histories too: the values written to the stack as *)
(* sp advanced and not yet given back as sp receded, oldest first, and the *)
(* register frames that the PUSHRF steps of the run have saved.            *)
(***************************************************************************)
Stepping == state \in {"ready", "running"} /\ steps < MaxSteps

\* the call that a successful step of op opens (CALL) or closes (RET)
Frame(op, r) ==
    IF r.res = "Ok" /\ op = CALL THEN [ret |-> pc + 2, csp |-> csp]
    ELSE IF r.res = "Ok" /\ op = RET /\ calls # <<>> THEN calls[Len(calls)]
    ELSE NoFrame

\* the register frame that a successful PUSHRF n saves, or that a successful
\* POPRF n finds: the one of the latest PUSHRF n that left sp where it is
Save(op, r) ==
    LET n == code[pc + 2].val
        found == {i \in 1 .. Len(frames) : frames[i].n = n /\ frames[i].sp + n = sp}
    IN  IF r.res = "Ok" /\ op = PUSHRF
        THEN [sp |-> sp, n |-> n, regs |-> regs, intact |-> TRUE]
        ELSE IF r.res = "Ok" /\ op = POPRF /\ found # {}
        THEN frames[CHOOSE i \in found : \A j \in found : j <= i]
        ELSE NoSave

\* the register frames saved so far once sp is top: a frame stays intact while
\* sp has not receded below its last slot
Retained(top) ==
    [i \in 1 .. Len(frames) |->
        [frames[i] EXCEPT !.intact = @ /\ frames[i].sp + frames[i].n <= top]]

\* the outcome r of step on the interpreter, on the state of the run and on
\* its histories
Apply(op, r) ==
    /\ regs' = r.vm.regs
    /\ stack' = r.vm.stack
    /\ call_stack' = r.vm.call_stack
    /\ pc' = r.vm.pc
    /\ sp' = r.vm.sp
    /\ csp' = r.vm.csp
    /\ cmp' = r.vm.cmp
    /\ state' = CASE r.res = "Panic" -> "panic"
                  [] r.res = "Err" -> "error"
                  [] r.res = "Ok" /\ r.continue_running -> "running"
                  [] OTHER -> "halted"
    /\ err' = r.kind
    /\ steps' = steps + 1
    /\ last' = [op |-> op, res |-> r.res, kind |-> r.kind,
                pre |-> [VM EXCEPT !.code = <<>>], frame |-> Frame(op, r),
                save |-> Save(op, r)]
    /\ calls' = IF r.res = "Ok" /\ op = CALL THEN Append(calls, Frame(op, r))
                ELSE IF r.res = "Ok" /\ op = RET /\ calls # <<>>
                THEN SubSeq(calls, 1, Len(calls) - 1)
                ELSE calls
    /\ pushed' = IF r.vm.sp <= Len(pushed) THEN SubSeq(pushed, 1, r.vm.sp)
                  ELSE pushed \o [i \in 1 .. (r.vm.sp - Len(pushed)) |->
                                     r.vm.stack[Len(pushed) + i - 1]]
    /\ frames' = IF r.res = "Ok" /\ op = PUSHRF THEN Append(Retained(r.vm.sp), Save(op, r))
                  ELSE Retained(r.vm.sp)

\* an iteration of the loop of run: the step, and its output printed or
\* appended to captured_output
Commit(op, r) ==
    /\ Apply(op, r)
    /\ captured_output' = IF capture_output THEN captured_output \o r.output
                          ELSE captured_output
    /\ stdout' = IF capture_output THEN stdout ELSE stdout \o r.output
    /\ UNCHANGED <<pipeline, code, capture_output, debugging>>

\* an iteration whose step fails to read an opcode
StepNoOp ==
    /\ consume_op(VM).res # "Ok"
    /\ \E r \in step(VM) : Commit(NoOp, r)

\* an iteration whose step reads opcode op
Step(op) ==
    /\ consume_op(VM).res = "Ok"
    /\ consume_op(VM).val = op
    /\ \E r \in step(VM) : Commit(op, r)

\* the loop of run: one iteration per disjunct, by the opcode at pc
Next ==
    \/ Stepping /\ StepNoOp
    \/ Stepping /\ Step(HALT)
    \/ Stepping /\ Step(SET)
    \/ Stepping /\ Step(SETF)
    \/ Stepping /\ Step(MOV)
    \/ Stepping /\ Step(PUSH)
    \/ Stepping /\ Step(PUSHL)
    \/ Stepping /\ Step(POP)
    \/ Stepping /\ Step(PUSHRF)
    \/ Stepping /\ Step(POPRF)
    \/ Stepping /\ Step(ADD)
    \/ Stepping /\ Step(ADDL)
    \/ Stepping /\ Step(SUB)
    \/ Stepping /\ Step(SUBL)
    \/ Stepping /\ Step(SUB2L)
    \/ Stepping /\ Step(MUL)
    \/ Stepping /\ Step(MULL)
    \/ Stepping /\ Step(DIV)
    \/ Stepping /\ Step(DIVL)
    \/ Stepping /\ Step(DIV2L)
    \/ Stepping /\ Step(MOD)
    \/ Stepping /\ Step(INC)
    \/ Stepping /\ Step(DEC)
    \/ Stepping /\ Step(ADDF)
    \/ Stepping /\ Step(ADDFL)
    \/ Stepping /\ Step(SUBF)
    \/ Stepping /\ Step(SUBFL)
    \/ Stepping /\ Step(SUBF2L)
    \/ Stepping /\ Step(MULF)
    \/ Stepping /\ Step(MULFL)
    \/ Stepping /\ Step(DIVF)
    \/ Stepping /\ Step(DIVFL)
    \/ Stepping /\ Step(DIVF2L)
    \/ Stepping /\ Step(POW)
    \/ Stepping /\ Step(POW2)
    \/ Stepping /\ Step(POWL)
    \/ Stepping /\ Step(POW2L)
    \/ Stepping /\ Step(CEIL)
    \/ Stepping /\ Step(FLOR)
    \/ Stepping /\ Step(CMP)
    \/ Stepping /\ Step(CMPL)
    \/ Stepping /\ Step(JMP)
    \/ Stepping /\ Step(JEQ)
    \/ Stepping /\ Step(JLT)
    \/ Stepping /\ Step(JLE)
    \/ Stepping /\ Step(JGT)
    \/ Stepping /\ Step(JGE)
    \/ Stepping /\ Step(JNE)
    \/ Stepping /\ Step(CALL)
    \/ Stepping /\ Step(RET)
    \/ Stepping /\ Step(DBGREG)
    \/ Stepping /\ Step(DBGREGF)
    \/ Stepping /\ Step(DBGREGS)

Spec == Init /\ [][Next]_vars

(***************************************************************************)
(* run called again on an interpreter whose run has returned.  The         *)
(* interpreter keeps no record that it has halted or failed: the second    *)
(* call starts with an empty captured_output of its own and enters the     *)
(* loop at the pc, and with the registers and stacks, that the first left. *)
(***************************************************************************)
Rerun ==
    /\ state \in {"halted", "error"}
    /\ steps < MaxSteps
    /\ state' = "ready"
    /\ captured_output' = <<>>
    /\ err' = ""
    /\ UNCHANGED <<pipeline, machine, capture_output, stdout, steps, last, calls, pushed,
                   frames, debugging>>

SpecRerun == Init /\ [][Next \/ Rerun]_vars

(***************************************************************************)
(* The assembler and the serializer on their own: a source is assembled    *)
(* (parse_string), the stream is serialized and the binary deserialized.   *)
(***************************************************************************)
InitAsm ==
    /\ src \in AsmSources
    /\ asm = NotAssembled
    /\ bin = NoResult
    /\ dec = NoResult
    /\ stage = "source"
    /\ InstallVM(VM_new(<<>>))
    /\ capture_output = FALSE
    /\ state = "idle"
    /\ FreshRun
    /\ NoDebugger

Assemble ==
    /\ stage = "source"
    /\ asm' = parse_string(src)
    /\ stage' = "assembled"
    /\ UNCHANGED <<src, bin, dec, machine, running, debugging>>

Serialize ==
    /\ stage = "assembled"
    /\ asm.ok
    /\ bin' = serialize(asm.code)
    /\ stage' = "serialized"
    /\ UNCHANGED <<src, asm, dec, machine, running, debugging>>

Deserialize ==
    /\ stage = "serialized"
    /\ bin.res = "Ok"
    /\ dec' = deserialize(bin.val)
    /\ stage' = "deserialized"
    /\ UNCHANGED <<src, asm, bin, machine, running, debugging>>

NextAsm == Assemble \/ Serialize \/ Deserialize

SpecAsm == InitAsm /\ [][NextAsm]_vars

(***************************************************************************)
(* Binary files: the bytes that serialize writes for an instruction, or    *)
(* for an instruction followed by HALT or SET, then cut short at any       *)
(* length or with one byte replaced.                                       *)
(***************************************************************************)
BinarySources ==
    {<<Decl(LabelA), Line(op, 2, RealTokPi, 0, 1, LabelA)>> \o tail :
        op \in OpCodes,
        tail \in {<<>>, <<Line(HALT, 2, RealTokPi, 0, 1, LabelA)>>,
                  <<Line(SET, 2, RealTokPi, 0, 1, LabelA)>>}}

\* every prefix of the bytes written for a source, and every change of one
\* of them to 0, 2 or 255
Binaries ==
    LET Prefixes(binary) == {SubSeq(binary, 1, k) : k \in 0 .. Len(binary)}
        Patched(binary) ==
            {[binary EXCEPT ![i] = byte] : i \in 1 .. Len(binary), byte \in {0, 2, 255}}
        Written(s) == serialize(parse_string(s).code).val
    IN  UNION {Prefixes(Written(s)) \cup Patched(Written(s)) : s \in BinarySources}

InitBin ==
    /\ src = <<>>
    /\ asm = NotAssembled
    /\ bin \in {Ok(binary) : binary \in Binaries}
    /\ dec = NoResult
    /\ stage = "binary"
    /\ InstallVM(VM_new(<<>>))
    /\ capture_output = FALSE
    /\ state = "idle"
    /\ FreshRun
    /\ NoDebugger

\* disassemble: deserialize on the bytes read from the file
Disassemble ==
    /\ stage = "binary"
    /\ dec' = deserialize(bin.val)
    /\ stage' = "disassembled"
    /\ UNCHANGED <<src, asm, bin, machine, running, debugging>>

SpecBin == InitBin /\ [][Disassemble]_vars

(***************************************************************************)
(* The run of one counting loop, from VM::new to HALT.  The loop of run    *)
(* takes its next iteration as long as no step has ended it: the steps are *)
(* weakly fair.                                                            *)
(***************************************************************************)
LabelLoop == <<"l", "o", "o", "p">>

\* SET 0 r0 / SET 0 r1 / loop: / INC r0 / ADD r0 r1 / CMPL 50 r0 / JLT loop /
\* HALT
LoopProgram ==
    << Line(SET, 0, RealTokPi, 0, 0, LabelLoop),
       Line(SET, 0, RealTokPi, 0, 1, LabelLoop),
       Decl(LabelLoop),
       Line(INC, 0, RealTokPi, 0, 0, LabelLoop),
       Line(ADD, 0, RealTokPi, 0, 1, LabelLoop),
       Line(CMPL, 50, RealTokPi, 0, 0, LabelLoop),
       Line(JLT, 0, RealTokPi, 0, 0, LabelLoop),
       Line(HALT, 0, RealTokPi, 0, 0, LabelLoop) >>

MaxLoopSteps == 256

InitLoop ==
    /\ src = LoopProgram
    /\ asm = parse_string(src)
    /\ asm.ok
    /\ bin = NoResult
    /\ dec = NoResult
    /\ stage = "run"
    /\ InstallVM(VM_new(asm.code))
    /\ capture_output \in BOOLEAN
    /\ state = "ready"
    /\ FreshRun
    /\ NoDebugger

Looping == state \in {"ready", "running"} /\ steps < MaxLoopSteps

NextLoop ==
    \/ Looping /\ Step(SET)
    \/ Looping /\ Step(INC)
    \/ Looping /\ Step(ADD)
    \/ Looping /\ Step(CMPL)
    \/ Looping /\ Step(JLT)
    \/ Looping /\ Step(HALT)

SpecLoop == InitLoop /\ [][NextLoop]_vars /\ WF_vars(NextLoop)

(***************************************************************************)
(* Streams that no assembler wrote: the stream of an instruction, or of an *)
(* instruction followed by HALT or SET, with one atom replaced by an atom  *)
(* of another tag or by a register the machine does not have (a register   *)
(* is one byte of a binary, so its index may be any of 0 .. 255).          *)
(***************************************************************************)
Retagged(stream) ==
    {[stream EXCEPT ![i] = atom] :
        i \in 1 .. Len(stream),
        atom \in {CodeOp(HALT), CodeReg(0), CodeReg(NUM_REGISTERS), CodeReg(255),
                  CodeInt(2), CodeAddr(0), CodeReal(0)}}

RawStreams ==
    UNION {{parse_string(s).code} \cup Retagged(parse_string(s).code) : s \in BinarySources}

\* an interpreter built by VM::new on any stream, with or without
\* capture_output()
InitRaw ==
    /\ src = <<>>
    /\ asm = NotAssembled
    /\ bin = NoResult
    /\ dec = NoResult
    /\ stage = "run"
    /\ \E stream \in RawStreams : InstallVM(VM_new(stream))
    /\ capture_output \in BOOLEAN
    /\ state = "ready"
    /\ FreshRun
    /\ NoDebugger

SpecRaw == InitRaw /\ [][Next]_vars

(***************************************************************************)
(* VM::debugger on the stream of an assembled source.  Debugger is the     *)
(* call: the listing is computed and the locals are set.  Each other       *)
(* action is one iteration of the loop: the test of the breakpoints, the   *)
(* prompt and the command read when the debugger waits for input, and the  *)
(* step when it is allowed to run.                                         *)
(***************************************************************************)
\* SET 2 r0 / PUSH r0 / DBGREG r0 / HALT; a: INC r0 / JMP a; POP r0 / HALT;
\* JMP a / a:
DebuggedPrograms ==
    { << Line(SET, 2, RealTokPi, 0, 0, LabelA), Line(PUSH, 0, RealTokPi, 0, 0, LabelA),
         Line(DBGREG, 0, RealTokPi, 0, 0, LabelA), Line(HALT, 0, RealTokPi, 0, 0, LabelA) >>,
      << Decl(LabelA), Line(INC, 0, RealTokPi, 0, 0, LabelA),
         Line(JMP, 0, RealTokPi, 0, 0, LabelA) >>,
      << Line(POP, 0, RealTokPi, 0, 0, LabelA), Line(HALT, 0, RealTokPi, 0, 0, LabelA) >>,
      << Line(JMP, 0, RealTokPi, 0, 0, LabelA), Decl(LabelA) >> }

\* the addresses given to the breakpoint command
BreakAddrs == {0, 3}

\* the lines typed at the prompt
Inputs ==
    {Input(name, "missing", 0) : name \in {"regs", "step", "play", "exit", "unknown", "empty"}}
        \cup {Input(name, arg, 0) : name \in {"stack", "breakpoint", "code"},
                                    arg \in {"missing", "invalid"}}
        \cup {Input(name, "number", 1) : name \in {"stack", "code"}}
        \cup {Input("breakpoint", "number", a) : a \in BreakAddrs}

MaxCommands == 3

InitDbg ==
    /\ src \in DebuggedPrograms
    /\ asm = parse_string(src)
    /\ asm.ok
    /\ bin = NoResult
    /\ dec = NoResult
    /\ stage = "run"
    /\ InstallVM(VM_new(asm.code))
    /\ capture_output = FALSE
    /\ state = "ready"
    /\ FreshRun
    /\ NoDebugger

\* the call of debugger: displayable_code(&self.code), which panics on a
\* stream it cannot walk, and the locals
Debugger ==
    /\ state = "ready"
    /\ listing = NoListing
    /\ listing' = displayable_code(code)
    /\ wait_for_input' = TRUE
    /\ allowed_to_run' = FALSE
    /\ breakpoints' = {}
    /\ cmd' = NoInput
    /\ state' = IF listing'.res = "Panic" THEN "panic" ELSE state
    /\ err' = IF listing'.res = "Panic" THEN listing'.kind ELSE err
    /\ UNCHANGED <<pipeline, machine, capture_output, captured_output, stdout, steps, last,
                   calls, pushed, frames>>

Debugging == listing.res = "Ok" /\ state \in {"ready", "running"}

\* the number of prompts among the lines printed
Prompts(out) == Cardinality({i \in 1 .. Len(out) : out[i].what = "> "})

\* what the step of an iteration prints
ProgramLines(r) ==
    CASE r.res = "Ok"
           -> [i \in 1 .. Len(r.output) |->
                  DebugLine(CASE r.output[i].what = "DBGREG" -> "PROGRAM OUTPUT> DBGREG"
                              [] r.output[i].what = "DBGREGF" -> "PROGRAM OUTPUT> DBGREGF"
                              [] r.output[i].what = "DBGREGS" -> "PROGRAM OUTPUT> DBGREGS",
                            r.output[i].reg, r.output[i].vals)]
              \o (IF r.continue_running THEN <<>>
                  ELSE <<DebugLine("<PROGRAM HALTED>", 0, <<>>)>>)
      [] r.res = "Err" -> <<DebugLine("PROGRAM ERROR> ", 0, <<>>)>>
      [] OTHER -> <<>>

\* the end of an iteration that is allowed to run: self.step(), after the
\* lines out were printed
DebugStep(out) ==
    /\ steps < MaxSteps
    /\ \E r \in step(VM) :
           /\ Apply(IF consume_op(VM).res = "Ok" THEN consume_op(VM).val ELSE NoOp, r)
           /\ stdout' = stdout \o out \o ProgramLines(r)
    /\ UNCHANGED <<pipeline, code, capture_output, captured_output>>

\* the end of an iteration that takes no step
DebugIdle(out, ended, msg) ==
    /\ stdout' = stdout \o out
    /\ state' = ended
    /\ err' = msg
    /\ UNCHANGED <<pipeline, machine, capture_output, captured_output, steps, last, calls,
                   pushed, frames>>

\* an iteration that prompts and reads the input c
DebugCommand(c) ==
    LET Hit == IF at_breakpoint(breakpoints, pc) /\ allowed_to_run
               THEN <<DebugLine("Breakpoint hit at address", pc, <<>>)>>
               ELSE <<>>
        Arm(d, out) ==
            /\ allowed_to_run' = d.allowed_to_run
            /\ wait_for_input' = d.wait_for_input
            /\ breakpoints' = d.breakpoints
            /\ IF d.returns THEN DebugIdle(out, "exited", "")
               ELSE IF d.panics THEN DebugIdle(out, "panic", "no entry found for key")
               ELSE IF ~continues(c, VM) /\ d.allowed_to_run THEN DebugStep(out \o d.output)
               ELSE DebugIdle(out \o d.output, state, err)
    IN  /\ Debugging
        /\ wait_for_input \/ at_breakpoint(breakpoints, pc)
        /\ Prompts(stdout) < MaxCommands
        /\ cmd' = c
        /\ listing' = listing
        /\ Arm(command(c, VM, allowed_to_run, breakpoints, listing),
               Hit \o <<DebugLine("> ", 0, <<>>)>>)

\* the commands that inspect the interpreter or change the breakpoints, an
\* unknown command and an empty line
DebugInspect == \E c \in Inputs : c.name \notin {"step", "play", "exit"} /\ DebugCommand(c)

DebugStepCommand == \E c \in Inputs : c.name = "step" /\ DebugCommand(c)

DebugPlayCommand == \E c \in Inputs : c.name = "play" /\ DebugCommand(c)

DebugExit == \E c \in Inputs : c.name = "exit" /\ DebugCommand(c)

\* an iteration that does not prompt
DebugPlaying ==
    /\ Debugging
    /\ ~wait_for_input
    /\ ~at_breakpoint(breakpoints, pc)
    /\ cmd' = NoInput
    /\ UNCHANGED <<listing, wait_for_input, allowed_to_run, breakpoints>>
    /\ IF allowed_to_run THEN DebugStep(<<>>) ELSE DebugIdle(<<>>, state, err)

NextDbg ==
    \/ Debugger
    \/ DebugInspect
    \/ DebugStepCommand
    \/ DebugPlayCommand
    \/ DebugExit
    \/ DebugPlaying

SpecDbg == InitDbg /\ [][NextDbg]_vars

\* displayable_code on any stream
SpecDisplay == InitRaw /\ [][Debugger]_vars

(***************************************************************************)
(* Properties of the assembler and the serializer (SpecAsm)                *)
(***************************************************************************)
\* C1: for every stream S that parse_string returns, serialize(S) succeeds,
\* deserialize of its bytes succeeds, and the stream it returns has the length
\* of S and at every index the tag and the value of the atom of S.
C1_RoundTrip ==
    /\ stage \in {"serialized", "deserialized"} => asm.ok /\ bin.res = "Ok"
    /\ stage = "deserialized" =>
          /\ dec.res = "Ok"
          /\ Len(dec.val) = Len(asm.code)
          /\ \A i \in 1 .. Len(asm.code) :
                /\ dec.val[i].tag = asm.code[i].tag
                /\ dec.val[i].val = asm.code[i].val

\* a stream with a NaN and the register byte 255 has made the round trip
C1_Witness ==
    /\ stage = "deserialized"
    /\ dec.res = "Ok"
    /\ \E i \in 1 .. Len(asm.code) : asm.code[i] = CodeReal(F64NaN)
    /\ \E i \in 1 .. Len(asm.code) : asm.code[i] = CodeReg(255)

(***************************************************************************)
(* Properties of the interpreter (Spec).  last is the step executed last   *)
(* and last.pre the interpreter before it; the atoms of that instruction   *)
(* are code[last.pre.pc + 1], code[last.pre.pc + 2], ... (code is 1-based  *)
(* here, pc 0-based).                                                      *)
(***************************************************************************)
\* the errors of the consume helpers on an atom of another tag
TagErrors ==
    {"Expected an opcode", "Expected a register", "Expected an integer",
     "Expected an address", "Expected a real"}

\* the k-th operand atom of the instruction executed last
Operand(k) == code[last.pre.pc + 1 + k]

\* C2: the assembler and the interpreter agree with OP_ARG_TYPES on the operand
\* atoms of every opcode: no step of an assembled stream fails because an atom
\* has another tag than the one the arm of the opcode consumes.
C2_ShapeAgreement == ~(last.res = "Err" /\ last.kind \in TagErrors)

\* run is about to call step
AtDispatch == state \in {"ready", "running"}

\* C3: whenever run is about to call step on an assembled stream, code[pc] is
\* an opcode atom or pc == code.len(); pc never points at an operand atom.
C3_PcInvariant ==
    AtDispatch => \/ pc = Len(code)
                  \/ pc < Len(code) /\ code[pc + 1].tag = "Op"

\* a return has brought pc back into the stream, behind the operand of a CALL
C3_Witness ==
    /\ AtDispatch
    /\ last.op = RET
    /\ last.res = "Ok"
    /\ pc < Len(code)
    /\ code[pc].tag = "Addr"

\* the documented condition under which a jump opcode is taken
Taken(op, flag) ==
    CASE op = JMP -> TRUE
      [] op = JEQ -> flag = 0
      [] op = JNE -> flag # 0
      [] op = JLT -> flag = 0 - 1
      [] op = JLE -> flag <= 0
      [] op = JGT -> flag = 1
      [] op = JGE -> flag >= 0
      [] OTHER -> FALSE

\* the step executed last succeeded
Succeeded == last.op # NoOp /\ last.res = "Ok"

\* C4: after a successful step of an instruction whose shape has k operand
\* atoms, pc is its value before the step plus k + 1, unless the instruction
\* is JMP, a taken conditional jump, CALL or RET.
C4_PcAdvance ==
    (/\ Succeeded
     /\ last.op \notin {CALL, RET}
     /\ ~Taken(last.op, last.pre.cmp))
        => pc = last.pre.pc + ShapeArity(Shape(last.op)) + 1

\* a conditional jump that was not taken has advanced pc by 2
C4_Witness ==
    /\ Succeeded
    /\ last.op \in Jumps \ {JMP}
    /\ ~Taken(last.op, last.pre.cmp)
    /\ pc = last.pre.pc + 2

\* the aborts of an access to stack[] or call_stack[] outside the array
StackPanics ==
    {"index out of bounds: stack", "index out of bounds: call_stack",
     "attempt to subtract with overflow"}

\* C5: in every reachable state of the interpreter 0 <= sp <= STACK_SIZE and
\* 0 <= csp <= CALL_STACK_SIZE, and no step reads or writes stack[] or
\* call_stack[] outside the array.
C5_StackBounds ==
    /\ sp \in 0 .. STACK_SIZE
    /\ csp \in 0 .. CALL_STACK_SIZE
    /\ ~(last.res = "Panic" /\ last.kind \in StackPanics)

\* a push has filled the last slot of the stack
C5_Witness ==
    /\ Succeeded
    /\ last.op \in {PUSH, PUSHL}
    /\ sp = STACK_SIZE

\* C6: run ends in Ok only after HALT has been executed, and a step that has
\* to read its opcode at pc == code.len() (a stream without HALT, the empty
\* stream) ends the run in Err.
C6_EndOfStreamIsErr ==
    /\ state = "halted" => last.op = HALT /\ last.res = "Ok"
    /\ (last.res # "None" /\ last.pre.pc = Len(code)) => state = "error"

\* the sign of an integer of any size
Sign(x) == IF x > 0 THEN 1 ELSE IF x = 0 THEN 0 ELSE 0 - 1

\* C7: CMP ra rb sets cmp to the sign of regs[rb] - regs[ra] taken over the
\* integers (+1 when regs[rb] > regs[ra], 0 when equal, -1 when smaller), also
\* when the difference does not fit the machine word; CMPL x rb does the same
\* with the immediate x in the place of regs[ra].
C7_CompareSign ==
    /\ (Succeeded /\ last.op = CMP) =>
          cmp = Sign(last.pre.regs[Operand(2).val] - last.pre.regs[Operand(1).val])
    /\ (Succeeded /\ last.op = CMPL) =>
          cmp = Sign(last.pre.regs[Operand(2).val] - Operand(1).val)

\* a CMP of two registers whose difference does not fit the machine word
C7_Witness ==
    /\ Succeeded
    /\ last.op = CMP
    /\ ~InRange(last.pre.regs[Operand(2).val] - last.pre.regs[Operand(1).val])
    /\ cmp = 1

\* C8: cmp is -1, 0 or +1 in every reachable state of the interpreter: it is 0
\* before the first step, and a step of another instruction than CMP and CMPL
\* leaves it as it was.
C8_CmpRange ==
    /\ cmp \in {0 - 1, 0, 1}
    /\ steps = 0 => cmp = 0
    /\ (last.res # "None" /\ last.op \notin {CMP, CMPL}) => cmp = last.pre.cmp

\* an instruction behind a comparison has left a cmp of -1 in place
C8_Witness ==
    /\ Succeeded
    /\ last.op \notin {CMP, CMPL}
    /\ last.pre.cmp = 0 - 1
    /\ cmp = 0 - 1

\* C9: JMP sets pc to its address; JEQ, JNE, JLT, JLE, JGT and JGE set pc to
\* their address exactly when cmp is 0, not 0, -1, at most 0, +1, at least 0,
\* and otherwise leave pc at the atom following the address.  No jump changes
\* the registers, sp, csp, the stacks or cmp.
C9_Jumps ==
    (Succeeded /\ last.op \in Jumps) =>
        /\ pc = IF Taken(last.op, last.pre.cmp) THEN Operand(1).val
                ELSE last.pre.pc + 2
        /\ regs = last.pre.regs
        /\ sp = last.pre.sp
        /\ csp = last.pre.csp
        /\ stack = last.pre.stack
        /\ call_stack = last.pre.call_stack
        /\ cmp = last.pre.cmp

\* a JLE taken on equality, over an instruction that it skips
C9_Witness ==
    /\ Succeeded
    /\ last.op = JLE
    /\ last.pre.cmp = 0
    /\ pc = Operand(1).val
    /\ pc > last.pre.pc + 2

\* C10: CALL addr stores the index of the instruction following the CALL on
\* the call stack and sets pc to addr; RET sets pc to the index stored by the
\* matching CALL, the latest one that has not returned yet, and restores csp
\* to its value before that CALL.
C10_CallReturn ==
    /\ (Succeeded /\ last.op = CALL) =>
          /\ call_stack[last.pre.csp] = last.pre.pc + 2
          /\ csp = last.pre.csp + 1
          /\ pc = Operand(1).val
    /\ (Succeeded /\ last.op = RET) =>
          /\ last.frame # NoFrame
          /\ pc = last.frame.ret
          /\ csp = last.frame.csp

\* the return of a nested call, while the outer call, which returns to
\* another place, is still open
C10_Witness ==
    /\ Succeeded
    /\ last.op = RET
    /\ calls # <<>>
    /\ calls[Len(calls)].ret # last.frame.ret
    /\ pc = last.frame.ret

\* the registers and sp after a successful PUSHRF n, and the registers from n
\* on after a successful POPRF n
FrameSteps ==
    /\ (Succeeded /\ last.op = PUSHRF) =>
           /\ Operand(1).val \in 1 .. NUM_REGISTERS - 1
           /\ sp = last.pre.sp + Operand(1).val
           /\ regs = last.pre.regs
           /\ \A i \in 0 .. Operand(1).val - 1 : stack[last.pre.sp + i] = last.pre.regs[i]
    /\ (Succeeded /\ last.op = POPRF) =>
           \A j \in Operand(1).val .. NUM_REGISTERS - 1 : regs[j] = last.pre.regs[j]

\* the POPRF n executed last has given back the registers below n and sp of
\* the PUSHRF n that left sp where the POPRF found it
FrameRestored ==
    /\ sp = last.save.sp
    /\ \A i \in 0 .. last.save.n - 1 : regs[i] = last.save.regs[i]

\* C11: for n in [1, NUM_REGISTERS - 1], PUSHRF n writes regs[0..n) to
\* stack[sp..sp+n) in ascending order and adds n to sp; a later POPRF n that
\* is executed when sp has returned to that value, with the registers possibly
\* overwritten in between, restores regs[0..n) and sp to their values before
\* the PUSHRF and leaves the registers from n on untouched.
C11_FrameRoundTrip ==
    /\ FrameSteps
    /\ (Succeeded /\ last.op = POPRF /\ last.save # NoSave) => FrameRestored

\* C11 as it holds: the POPRF n restores regs[0..n) and sp when in addition no
\* slot of the frame has been popped between the PUSHRF and the POPRF.
C11_FrameRoundTripIntact ==
    /\ FrameSteps
    /\ (Succeeded /\ last.op = POPRF /\ last.save.intact) => FrameRestored

\* a POPRF 2 has restored r0 and r1 after r0 was overwritten behind the PUSHRF 2
C11_Witness ==
    /\ Succeeded
    /\ last.op = POPRF
    /\ last.save.intact
    /\ last.save.n = 2
    /\ last.pre.regs[0] # last.save.regs[0]
    /\ regs[0] = last.save.regs[0]
    /\ regs[1] = last.save.regs[1]
    /\ sp = last.save.sp

\* the value that the PUSH or PUSHL executed last had to push
PushedValue ==
    IF last.op = PUSH THEN last.pre.regs[Operand(1).val] ELSE Operand(1).val

\* C12: PUSH and PUSHL write to stack[sp] and then increment sp, and fail with
\* a stack overflow error exactly when sp == STACK_SIZE; POP decrements sp and
\* then loads regs[rb] from stack[sp], and fails with a stack underflow error
\* exactly when sp == 0; the values of k pushes come back from k pops in
\* reverse order: every slot below sp still holds the value pushed to it.
C12_PushPop ==
    /\ last.op \in {PUSH, PUSHL} =>
           /\ (last.res = "Err" /\ last.kind = "Stack overflow") <=> last.pre.sp = STACK_SIZE
           /\ last.pre.sp # STACK_SIZE =>
                  /\ last.res = "Ok"
                  /\ stack = [last.pre.stack EXCEPT ![last.pre.sp] = PushedValue]
                  /\ sp = last.pre.sp + 1
    /\ last.op = POP =>
           /\ (last.res = "Err" /\ last.kind = "Stack underflow") <=> last.pre.sp = 0
           /\ last.pre.sp # 0 =>
                  /\ last.res = "Ok"
                  /\ sp = last.pre.sp - 1
                  /\ regs = [last.pre.regs EXCEPT ![Operand(1).val] = last.pre.stack[sp]]
                  /\ stack = last.pre.stack
    /\ Len(pushed) = sp
    /\ \A i \in 1 .. sp : stack[i - 1] = pushed[i]

\* the second of two pops has returned the first of two different pushed values
C12_Witness ==
    /\ Succeeded
    /\ last.op = POP
    /\ last.pre.sp < STACK_SIZE
    /\ regs[Operand(1).val] = last.pre.stack[sp]
    /\ regs[Operand(1).val] # last.pre.stack[sp + 1]
    /\ last.pre.regs[Operand(1).val] = last.pre.stack[sp + 1]

\* C13: CALL fails with a call-stack overflow error exactly when
\* csp == CALL_STACK_SIZE, so a chain of CALL_STACK_SIZE nested calls succeeds
\* and the next nested CALL fails; RET fails with a call-stack underflow error
\* exactly when csp == 0.
C13_CallStackLimits ==
    /\ last.op = CALL =>
           /\ (last.res = "Err" /\ last.kind = "Call stack overflow")
                  <=> last.pre.csp = CALL_STACK_SIZE
           /\ last.pre.csp # CALL_STACK_SIZE => last.res = "Ok" /\ csp = last.pre.csp + 1
    /\ last.op = RET =>
           /\ (last.res = "Err" /\ last.kind = "Call stack underflow") <=> last.pre.csp = 0
           /\ last.pre.csp # 0 => last.res = "Ok" /\ csp = last.pre.csp - 1
    /\ Len(calls) = csp

\* CALL_STACK_SIZE nested calls have succeeded and the next CALL has failed
C13_Witness ==
    /\ last.op = CALL
    /\ last.res = "Err"
    /\ last.kind = "Call stack overflow"
    /\ Len(calls) = CALL_STACK_SIZE
    /\ steps = CALL_STACK_SIZE + 1

\* the error of a PUSHRF or POPRF whose frame size is not a valid one
FrameSizeError ==
    IF last.op = PUSHRF THEN "PUSHRF frame size out of bounds"
    ELSE "POPRF frame size out of bounds"

\* C14: PUSHRF n and POPRF n succeed only for n in [1, NUM_REGISTERS - 1]; a
\* frame size n < 1 (negative ones included) or n >= NUM_REGISTERS is
\* rejected with the frame-size-out-of-bounds error, and the instruction
\* pushes and pops nothing.
C14_FrameSize ==
    last.op \in {PUSHRF, POPRF} =>
        /\ (last.res = "Err" /\ last.kind = FrameSizeError)
               <=> Operand(1).val \notin 1 .. NUM_REGISTERS - 1
        /\ Operand(1).val \notin 1 .. NUM_REGISTERS - 1 =>
               /\ sp = last.pre.sp
               /\ stack = last.pre.stack
               /\ regs = last.pre.regs

\* a POPRF NUM_REGISTERS has been rejected on a stack that holds enough values
\* for it, and has left sp where it was
C14_Witness ==
    /\ last.op = POPRF
    /\ Operand(1).val = NUM_REGISTERS
    /\ last.pre.sp >= NUM_REGISTERS
    /\ last.res = "Err"
    /\ last.kind = "POPRF frame size out of bounds"
    /\ sp = last.pre.sp

\* C15: PUSHRF n with a valid n fails with a stack overflow error only when
\* sp + n > STACK_SIZE and succeeds whenever sp + n <= STACK_SIZE, the case
\* sp + n == STACK_SIZE included; POPRF n with a valid n fails with a stack
\* underflow error exactly when sp < n.
C15_FrameLimits ==
    (/\ last.op \in {PUSHRF, POPRF}
     /\ Operand(1).val \in 1 .. NUM_REGISTERS - 1) =>
        /\ last.op = PUSHRF =>
               /\ (last.res = "Err" /\ last.kind = "PUSHRF stack overflow")
                      <=> last.pre.sp + Operand(1).val > STACK_SIZE
               /\ last.pre.sp + Operand(1).val <= STACK_SIZE => last.res = "Ok"
        /\ last.op = POPRF =>
               /\ (last.res = "Err" /\ last.kind = "POPRF stack underflow")
                      <=> last.pre.sp < Operand(1).val
               /\ last.pre.sp >= Operand(1).val => last.res = "Ok"

\* the operands of the integer instruction executed last: the register ra, the
\* literal x, and the destination register (rb, or the register of INC and DEC)
Ra == last.pre.regs[Operand(1).val]

Lit == Operand(1).val

Dest == IF last.op \in {INC, DEC} THEN Operand(1).val ELSE Operand(2).val

Rb == last.pre.regs[Dest]

\* the two's-complement result documented for the instruction executed last
WrappedResult ==
    CASE last.op = ADD -> Wrap(Rb + Ra)
      [] last.op = ADDL -> Wrap(Rb + Lit)
      [] last.op = SUB -> Wrap(Rb - Ra)
      [] last.op = SUBL -> Wrap(Rb - Lit)
      [] last.op = SUB2L -> Wrap(Lit - Rb)
      [] last.op = MUL -> WrappingMul(Rb, Ra)
      [] last.op = MULL -> WrappingMul(Rb, Lit)
      [] last.op = INC -> Wrap(Rb + 1)
      [] last.op = DEC -> Wrap(Rb - 1)

\* C16: the integer arithmetic of ADD, ADDL, SUB, SUBL, SUB2L, MUL, MULL, INC
\* and DEC is two's-complement wrapping: the destination register receives the
\* wrapped result, and no overflow aborts the run or ends it in an error.
C16_WrappingArithmetic ==
    last.op \in {ADD, ADDL, SUB, SUBL, SUB2L, MUL, MULL, INC, DEC} =>
        /\ ~(last.res \in {"Panic", "Err"} /\ last.kind = "arithmetic overflow")
        /\ Succeeded => regs = [last.pre.regs EXCEPT ![Dest] = WrappedResult]

\* the dividend and the divisor documented for the DIV, DIVL, DIV2L or MOD
\* executed last
Dividend == IF last.op = DIV2L THEN Lit ELSE Rb

Divisor ==
    CASE last.op \in {DIV, MOD} -> Ra
      [] last.op = DIVL -> Lit
      [] last.op = DIV2L -> Rb

\* q is the quotient of n by d truncated toward zero
IsTruncatedQuotient(q, n, d) ==
    /\ Abs(n - q * d) < Abs(d)
    /\ n - q * d = 0 \/ Sign(n - q * d) = Sign(n)

\* r is the remainder of n by d with the sign of the dividend n
IsRemainder(r, n, d) ==
    /\ Abs(r) < Abs(d)
    /\ r = 0 \/ Sign(r) = Sign(n)
    /\ (n - r) % Abs(d) = 0

\* C17: the operand order of the non-commutative integer instructions is
\* SUB ra rb: regs[rb] - regs[ra]; SUBL x rb: regs[rb] - x; SUB2L x rb:
\* x - regs[rb]; DIV ra rb: regs[rb] / regs[ra]; DIVL x rb: regs[rb] / x;
\* DIV2L x rb: x / regs[rb]; MOD ra rb: regs[rb] rem regs[ra]; the result goes
\* to rb, division truncates toward zero, the remainder has the sign of the
\* dividend, and no other register (ra when ra != rb) changes.
C17_OperandOrder ==
    (Succeeded /\ last.op \in {SUB, SUBL, SUB2L, DIV, DIVL, DIV2L, MOD}) =>
        /\ \A j \in DOMAIN regs : j # Dest => regs[j] = last.pre.regs[j]
        /\ last.op \in {SUB, SUBL, SUB2L} => regs[Dest] = WrappedResult
        /\ last.op \in {DIV, DIVL, DIV2L} =>
               IsTruncatedQuotient(regs[Dest], Dividend, Divisor)
        /\ last.op = MOD => IsRemainder(regs[Dest], Dividend, Divisor)

\* MOD r0 r1 with r1 = -1 and r0 = 2 has left -1 in r1 and 2 in r0
C17_Witness ==
    /\ Succeeded
    /\ last.op = MOD
    /\ Operand(1).val # Operand(2).val
    /\ Rb = 0 - 1
    /\ Ra = 2
    /\ regs[Dest] = 0 - 1
    /\ regs[Operand(1).val] = 2

(***************************************************************************)
(* Properties of the emitted stream (SpecAsm)                              *)
(***************************************************************************)
\* the operand atom that a chunk of an instruction line stands for; the
\* address of a label reference is left open
OperandAtom(tag, chunk) ==
    CASE tag = "Reg" -> CodeReg(u8_from_str(Tail(chunk)).val)
      [] tag = "Int" -> CodeInt(i64_from_str(chunk).val)
      [] tag = "Real" -> CodeReal(f64_from_str(chunk).val)
      [] tag = "Addr" -> CodeAddr(0)

\* the atoms of the shape of the instruction on a line, none for a label
\* declaration, an empty line or a comment
LineAtoms(parts) ==
    IF parts = <<>> \/ ends_with(Head(parts), ":") THEN <<>>
    ELSE <<CodeOp(OpCode_from_str(Head(parts)).val)>>
             \o [k \in 1 .. ShapeArity(Shape(OpCode_from_str(Head(parts)).val)) |->
                    OperandAtom(ShapeTags(Shape(OpCode_from_str(Head(parts)).val))[k],
                                parts[k + 1])]

\* the atoms of the lines i .. of a source, in order
RECURSIVE SourceAtoms(_, _)
SourceAtoms(raw_code, i) ==
    IF i > Len(raw_code) THEN <<>>
    ELSE LineAtoms(split_line(raw_code[i])) \o SourceAtoms(raw_code, i + 1)

\* a stream with the addresses left open
AddressesOpen(stream) ==
    [i \in 1 .. Len(stream) |-> IF stream[i].tag = "Addr" THEN CodeAddr(0) ELSE stream[i]]

\* walking a stream from index i by the shape table finds an opcode atom at
\* every instruction start and ends exactly at the length of the stream
RECURSIVE Walk(_, _)
Walk(stream, i) ==
    IF i >= Len(stream) THEN i = Len(stream)
    ELSE /\ stream[i + 1].tag = "Op"
         /\ stream[i + 1].val \in OpCodes
         /\ Walk(stream, i + 1 + ShapeArity(Shape(stream[i + 1].val)))

\* C18: for every instruction line the assembler appends exactly the atoms of
\* the shape of its opcode, in order (Nil: [op]; Reg: [op, r]; IntReg:
\* [op, int, r]; RegReg: [op, r1, r2]; Addr: [op, addr]; Int: [op, int];
\* RealReg: [op, real, r]), so walking the assembled stream from index 0 by
\* the shape table visits an opcode atom at every instruction start and ends
\* exactly at the length of the stream.
C18_ShapeAtoms ==
    asm.ok =>
        /\ AddressesOpen(asm.code) = SourceAtoms(src, 1)
        /\ Walk(asm.code, 0)

\* SET, SET and INC have been assembled to 3 + 3 + 2 atoms
C18_Witness ==
    /\ asm.ok
    /\ Len(asm.code) = 8
    /\ asm.code[1] = CodeOp(SET)
    /\ asm.code[2].tag = "Int"
    /\ asm.code[3].tag = "Reg"
    /\ asm.code[7] = CodeOp(INC)
    /\ asm.code[8].tag = "Reg"

\* the number of atoms that the lines before line l of the source emit
AtomsBefore(l) == Len(SourceAtoms(SubSeq(src, 1, l - 1), 1))

\* line l of the source declares a label, a parent label, refers to a label
IsDecl(l) == split_line(src[l]) # <<>> /\ ends_with(Head(split_line(src[l])), ":")

IsParentDecl(l) == IsDecl(l) /\ ~starts_with(Head(split_line(src[l])), ".")

IsRef(l) ==
    /\ split_line(src[l]) # <<>>
    /\ ~IsDecl(l)
    /\ Shape(OpCode_from_str(Head(split_line(src[l]))).val) = "Addr"

\* the parent label in force at line l: the one declared last before it
ParentAt(l) ==
    IF \E j \in 1 .. l - 1 : IsParentDecl(j)
    THEN LET j == CHOOSE j \in 1 .. l - 1 :
                      IsParentDecl(j) /\ \A k \in j + 1 .. l - 1 : ~IsParentDecl(k)
         IN  SubSeq(Head(split_line(src[j])), 1, Len(Head(split_line(src[j]))) - 1)
    ELSE beggining_of_program

\* the full name of the label that line l declares, and of the one it refers to
DeclName(l) ==
    IF IsParentDecl(l)
    THEN SubSeq(Head(split_line(src[l])), 1, Len(Head(split_line(src[l]))) - 1)
    ELSE Qualified(ParentAt(l),
                   SubSeq(Head(split_line(src[l])), 2, Len(Head(split_line(src[l]))) - 1))

RefName(l) ==
    IF starts_with(split_line(src[l])[2], ".")
    THEN Qualified(ParentAt(l), Tail(split_line(src[l])[2]))
    ELSE split_line(src[l])[2]

\* C19: after a successful assembly every Addr atom holds the stream index
\* recorded for the label its line names, which is the length of the stream
\* emitted before the line that declares the label, for references before and
\* behind the declaration alike; no placeholder is left.
C19_LabelResolution ==
    asm.ok =>
        \A l \in 1 .. Len(src) :
            IsRef(l) =>
                \E d \in 1 .. Len(src) :
                    /\ IsDecl(d)
                    /\ DeclName(d) = RefName(l)
                    /\ asm.code[AtomsBefore(l) + 2] = CodeAddr(AtomsBefore(d))

\* a stream holds a reference to a label declared behind it and a reference to
\* a label declared before it, both to an index other than 0
C19_Witness ==
    /\ asm.ok
    /\ \E i \in 1 .. Len(asm.code) :
           asm.code[i].tag = "Addr" /\ asm.code[i].val >= i
    /\ \E i \in 1 .. Len(asm.code) :
           asm.code[i].tag = "Addr" /\ asm.code[i].val > 0 /\ asm.code[i].val < i - 1

\* C20: in an assembled stream the value of every Addr atom is the index of an
\* opcode atom of the stream, in particular an index below its length, also
\* when the label is declared behind the last instruction.
C20_AddrAtOpcode ==
    asm.ok =>
        \A i \in 1 .. Len(asm.code) :
            asm.code[i].tag = "Addr" =>
                /\ asm.code[i].val < Len(asm.code)
                /\ asm.code[asm.code[i].val + 1].tag = "Op"

\* line l of the source declares a sublabel, refers to a sublabel
IsSubDecl(l) == IsDecl(l) /\ ~IsParentDecl(l)

IsSubRef(l) == IsRef(l) /\ starts_with(split_line(src[l])[2], ".")

\* the name without the dot (and the colon) of the sublabel of line l
SubName(l) ==
    IF IsDecl(l)
    THEN SubSeq(Head(split_line(src[l])), 2, Len(Head(split_line(src[l]))) - 1)
    ELSE Tail(split_line(src[l])[2])

\* the address that the assembled stream holds for the reference of line l
AddrOf(l) == asm.code[AtomsBefore(l) + 2].val

\* C21: a sublabel declaration and a sublabel reference are both qualified by
\* the parent label current at their own line: a reference resolves to the
\* declaration of its name under the parent in whose scope the reference
\* occurs, and the same name declared under two different parents is no
\* redefinition (the sublabel-already-defined error needs two declarations of
\* the name under one parent).
C21_SublabelScope ==
    /\ asm.ok =>
           \A l \in 1 .. Len(src) :
               IsSubRef(l) =>
                   \E d \in 1 .. Len(src) :
                       /\ IsSubDecl(d)
                       /\ SubName(d) = SubName(l)
                       /\ ParentAt(d) = ParentAt(l)
                       /\ AddrOf(l) = AtomsBefore(d)
    /\ (~asm.ok /\ asm.kind = "sublabel already defined") =>
           \E d \in 1 .. Len(src) :
               /\ IsSubDecl(d)
               /\ IsSubDecl(asm.lineno)
               /\ d < asm.lineno
               /\ SubName(d) = SubName(asm.lineno)
               /\ ParentAt(d) = ParentAt(asm.lineno)

\* two references to .x under two different parents have been resolved to
\* two different addresses
C21_Witness ==
    /\ asm.ok
    /\ \E l1 \in 1 .. Len(src), l2 \in 1 .. Len(src) :
           /\ IsSubRef(l1)
           /\ IsSubRef(l2)
           /\ SubName(l1) = SubName(l2)
           /\ ParentAt(l1) = LabelA
           /\ ParentAt(l2) = LabelB
           /\ AddrOf(l1) # AddrOf(l2)

\* the source declares the same fully-qualified label name on two lines
DeclaredTwice ==
    \E d1 \in 1 .. Len(src), d2 \in 1 .. Len(src) :
        d1 < d2 /\ IsDecl(d1) /\ IsDecl(d2) /\ DeclName(d1) = DeclName(d2)

\* C22: declaring a parent label or a sublabel whose fully-qualified name has
\* already been declared makes the assembly fail with an error, and no
\* instruction stream is returned.
C22_DuplicateLabel ==
    (stage # "source" /\ DeclaredTwice) => ~asm.ok /\ asm.code = <<>>

\* the second declaration of a parent label on line 3 has been rejected
C22_Witness ==
    /\ stage = "assembled"
    /\ Len(src) >= 3
    /\ IsParentDecl(1)
    /\ IsParentDecl(3)
    /\ DeclName(1) = DeclName(3)
    /\ ~asm.ok
    /\ asm.kind = "label already defined"
    /\ asm.lineno = 3

\* line l is an instruction line with more chunks than its opcode and the
\* operands of its shape
HasTrailer(l) ==
    /\ split_line(src[l]) # <<>>
    /\ ~IsDecl(l)
    /\ OpCode_from_str(Head(split_line(src[l]))).ok
    /\ Len(split_line(src[l])) >
           1 + ShapeArity(Shape(OpCode_from_str(Head(split_line(src[l]))).val))

\* C23: for every opcode shape (Nil, Reg, IntReg, RegReg, Addr, Int, RealReg)
\* a source line with additional tokens after the operands its shape requires
\* is rejected: the assembly fails, and when it fails on that line and not on
\* one of its operands, with the expected-end-of-line error.
C23_LineTrailer ==
    stage # "source" =>
        \A l \in 1 .. Len(src) :
            HasTrailer(l) =>
                /\ ~asm.ok
                /\ (/\ asm.has_pos
                    /\ asm.lineno = l
                    /\ asm.kind \notin {"expected integer", "expected register",
                                        "expected real"})
                       => asm.kind = "expected end of line"

\* C24: the assembler accepts a register operand only if its index is
\* smaller than NUM_REGISTERS: every Reg atom of a stream that the assembler
\* returns has an index below NUM_REGISTERS.
C24_RegisterRange ==
    asm.ok =>
        \A i \in 1 .. Len(asm.code) :
            asm.code[i].tag = "Reg" => asm.code[i].val < NUM_REGISTERS

\* the chunk is an operand of the kind tag
ChunkOk(tag, chunk) ==
    CASE tag = "Reg" -> starts_with(chunk, "r") /\ u8_from_str(Tail(chunk)).ok
      [] tag = "Int" -> i64_from_str(chunk).ok
      [] tag = "Real" -> f64_from_str(chunk).ok
      [] tag = "Addr" -> TRUE

\* an operand of the instruction line l with opcode op is missing or malformed
OperandFault(l, op) ==
    \E k \in 1 .. ShapeArity(Shape(op)) :
        \/ Len(split_line(src[l])) < k + 1
        \/ ~ChunkOk(ShapeTags(Shape(op))[k], split_line(src[l])[k + 1])

\* line l of the source is at fault: an unknown opcode, a missing or malformed
\* operand, trailing tokens, a label declared before, a label declared nowhere
FaultAt(l) ==
    /\ split_line(src[l]) # <<>>
    /\ IF IsDecl(l)
       THEN \E d \in 1 .. l - 1 : IsDecl(d) /\ DeclName(d) = DeclName(l)
       ELSE \/ ~OpCode_from_str(Head(split_line(src[l]))).ok
            \/ OperandFault(l, OpCode_from_str(Head(split_line(src[l]))).val)
            \/ HasTrailer(l)
            \/ IsRef(l) /\ \A d \in 1 .. Len(src) : IsDecl(d) => DeclName(d) # RefName(l)

\* C25: every parse error (unknown opcode, malformed or missing operand,
\* trailing tokens, duplicate label, undefined label reference) carries the
\* position <filename>.<lineno>, where lineno is the 1-based number of the
\* physical source line at fault, empty and comment-only lines counted.
C25_ErrorPosition ==
    (stage # "source" /\ ~asm.ok) =>
        /\ asm.has_pos
        /\ asm.lineno \in 1 .. Len(src)
        /\ FaultAt(asm.lineno)

\* line l refers to a label that no line of the source declares
UndefinedRef(l) ==
    IsRef(l) /\ \A d \in 1 .. Len(src) : IsDecl(d) => DeclName(d) # RefName(l)

\* C26: a reference to a label that is declared nowhere in the source makes
\* the assembly fail with an error, whatever the number and the order of the
\* references; no stream with an unresolved placeholder address is returned.
C26_UndefinedLabel ==
    (stage # "source" /\ \E l \in 1 .. Len(src) : UndefinedRef(l))
        => ~asm.ok /\ asm.code = <<>>

\* the assembly has failed on a source whose first reference is undefined and
\* whose later reference is defined, with no other fault
C26_Witness ==
    /\ stage = "assembled"
    /\ ~asm.ok
    /\ asm.kind = "label not defined"
    /\ \E l1 \in 1 .. Len(src), l2 \in 1 .. Len(src) :
           /\ l1 < l2
           /\ UndefinedRef(l1)
           /\ IsRef(l2)
           /\ ~UndefinedRef(l2)

(***************************************************************************)
(* Properties of deserialize on the bytes of a file (SpecBin)              *)
(***************************************************************************)
\* the bytes begin with the signature and the current version
ValidHeader(binary) ==
    /\ Len(binary) >= UVM_SIGNATURE_LEN + 1
    /\ \A i \in 1 .. UVM_SIGNATURE_LEN : binary[i] = UVM_BINARY_SIGNATURE[i]
    /\ binary[UVM_SIGNATURE_LEN + 1] = UVM_BINARY_VERSION

InstructionBytes(op) ==
    1 + Cardinality({k \in 1 .. ShapeArity(Shape(op)) : ShapeTags(Shape(op))[k] = "Reg"})
      + IntBytes * Cardinality({k \in 1 .. ShapeArity(Shape(op)) :
                                   ShapeTags(Shape(op))[k] # "Reg"})

\* from the instruction start idx (0-based) on, the body has an invalid opcode
\* byte at an instruction start or ends in the middle of an instruction
RECURSIVE Malformed(_, _)
Malformed(binary, idx) ==
    IF idx >= Len(binary) THEN FALSE
    ELSE IF binary[idx + 1] \notin OpCodes THEN TRUE
    ELSE IF idx + InstructionBytes(binary[idx + 1]) > Len(binary) THEN TRUE
    ELSE Malformed(binary, idx + InstructionBytes(binary[idx + 1]))

\* C28: deserialize returns Err for every byte sequence with a valid header
\* whose body has an invalid opcode byte at an instruction start or ends in
\* the middle of an instruction (fewer bytes left than the shape of the
\* opcode requires); it never reads past the end of the input.
C28_BodyCheck ==
    (stage = "disassembled" /\ ValidHeader(bin.val)) =>
        /\ dec.res # "Panic"
        /\ Malformed(bin.val, UVM_SIGNATURE_LEN + 1) => dec.res = "Err"

(***************************************************************************)
(* Properties of the output and of the consume helpers (Spec)              *)
(***************************************************************************)
\* the opcode that the next step reads, NoOp when there is none to read
NextOp == IF pc < Len(code) /\ code[pc + 1].tag = "Op" THEN code[pc + 1].val ELSE NoOp

\* the output line of the debug instruction that the next step executes
NextDebugLine ==
    CASE NextOp = DBGREG -> DebugLine("DBGREG", code[pc + 2].val, <<regs[code[pc + 2].val]>>)
      [] NextOp = DBGREGF ->
             DebugLine("DBGREGF", code[pc + 2].val, <<i2f(regs[code[pc + 2].val])>>)
      [] NextOp = DBGREGS ->
             DebugLine("DBGREGS", 0, [i \in 1 .. NUM_REGISTERS |-> regs[i - 1]])

\* C29: in capture mode the string that run returns on HALT is the
\* concatenation of the output lines of the debug instructions executed, each
\* followed by one newline, in the order of their execution: every successful
\* step of a debug instruction appends its line and no other step changes the
\* string; in immediate mode the string stays empty.
C29_CapturedOutput ==
    [][/\ capture_output' = capture_output
       /\ captured_output' =
              IF /\ capture_output
                 /\ NextOp \in {DBGREG, DBGREGF, DBGREGS}
                 /\ state' \in {"running", "halted"}
              THEN Append(captured_output, NextDebugLine)
              ELSE captured_output
       /\ ~capture_output => captured_output' = <<>>]_vars

\* run has returned on HALT two different lines, in capture mode
C29_Witness ==
    /\ state = "halted"
    /\ last.op = HALT
    /\ capture_output
    /\ Len(captured_output) = 2
    /\ captured_output[1].what = "DBGREG"
    /\ captured_output[2].what = "DBGREG"
    /\ captured_output[1].vals # captured_output[2].vals
    /\ stdout = <<>>

\* the tags that the step executed last had to find from its pc on: an opcode
\* and the operands that the arm of the opcode consumes
ExpectedTags ==
    IF last.pre.pc < Len(code) /\ code[last.pre.pc + 1].tag = "Op"
    THEN <<"Op">> \o ArmOperands(code[last.pre.pc + 1].val)
    ELSE <<"Op">>

\* the error of a consume helper that finds another tag than the one it reads
TagError(tag) ==
    CASE tag = "Op" -> "Expected an opcode"
      [] tag = "Reg" -> "Expected a register"
      [] tag = "Int" -> "Expected an integer"
      [] tag = "Addr" -> "Expected an address"
      [] tag = "Real" -> "Expected a real"

\* the atom k of the instruction executed last can be consumed
Consumable(k) ==
    /\ last.pre.pc + k <= Len(code)
    /\ code[last.pre.pc + k].tag = ExpectedTags[k]
    /\ ExpectedTags[k] = "Reg" => code[last.pre.pc + k].val < NUM_REGISTERS

\* C30: when the atom at pc has not the tag the interpreter expects (no opcode
\* where an opcode is expected, an operand of another tag than the one
\* consumed), run returns Err; each consume helper advances pc by exactly one
\* on success and leaves pc unchanged on failure, so pc is left at the atom
\* that was refused.
C30_TagMismatch ==
    last.res # "None" =>
        /\ \A k \in 1 .. Len(ExpectedTags) :
               (/\ \A j \in 1 .. k - 1 : Consumable(j)
                /\ last.pre.pc + k <= Len(code)
                /\ code[last.pre.pc + k].tag # ExpectedTags[k])
                   => /\ state = "error"
                      /\ last.res = "Err"
                      /\ err = TagError(ExpectedTags[k])
                      /\ pc = last.pre.pc + k - 1
        /\ last.res = "Ok" => \A k \in 1 .. Len(ExpectedTags) : Consumable(k)
        /\ (last.res = "Err" /\ last.kind \in TagErrors) =>
               /\ pc < Len(code)
               /\ last.kind = TagError(ExpectedTags[pc - last.pre.pc + 1])
               /\ code[pc + 1].tag # ExpectedTags[pc - last.pre.pc + 1]

\* the second operand of an instruction was no register: run has returned Err
\* with pc at that atom, two atoms behind the opcode
C30_Witness ==
    /\ state = "error"
    /\ last.res = "Err"
    /\ last.kind = "Expected a register"
    /\ Len(ExpectedTags) = 3
    /\ pc = last.pre.pc + 2
    /\ code[pc + 1].tag # "Reg"

(***************************************************************************)
(* Properties of the failures and of the effects of a step (Spec, SpecRaw) *)
(***************************************************************************)
\* C35: DIV, DIVL, DIV2L and MOD with a zero divisor follow one deterministic
\* policy: the step fails with a runtime error that run returns as Err and
\* leaves the registers unchanged; the run is not aborted in another way.
C35_DivisionByZero ==
    (/\ last.op \in {DIV, DIVL, DIV2L, MOD}
     /\ last.res # "None"
     /\ Divisor = 0)
        => /\ last.res = "Err"
           /\ state = "error"
           /\ regs = last.pre.regs

\* the atom k of the instruction executed last is a register operand whose
\* index the machine does not have, and every atom before it was consumed
RegisterPastEnd(k) ==
    /\ \A j \in 1 .. k - 1 : Consumable(j)
    /\ last.pre.pc + k <= Len(code)
    /\ ExpectedTags[k] = "Reg"
    /\ code[last.pre.pc + k].tag = "Reg"
    /\ code[last.pre.pc + k].val >= NUM_REGISTERS

\* C36: the interpreter never reads or writes a register with an index of
\* NUM_REGISTERS or more: on any stream, a Reg operand with such an index makes
\* the step fail with the out-of-bounds error of consume_reg, with pc left at
\* that atom and no register changed, and no step panics on an index into regs.
C36_RegisterBound ==
    /\ ~(state = "panic" /\ err = "index out of bounds: regs")
    /\ last.res # "None" =>
           \A k \in 2 .. Len(ExpectedTags) :
               RegisterPastEnd(k)
                   => /\ state = "error"
                      /\ last.res = "Err"
                      /\ last.kind = "Register out of bounds"
                      /\ err = "Register out of bounds"
                      /\ pc = last.pre.pc + k - 1
                      /\ regs = last.pre.regs

\* the second register of a two-register instruction is register 255, as a
\* binary can encode it: the step has failed at that atom
C36_Witness ==
    /\ state = "error"
    /\ last.kind = "Register out of bounds"
    /\ Len(ExpectedTags) = 3
    /\ RegisterPastEnd(3)
    /\ code[last.pre.pc + 3].val = 255
    /\ pc = last.pre.pc + 2

(***************************************************************************)
(* Properties of the lines that the assembler accepts (SpecAsm)            *)
(***************************************************************************)
\* the number of opcodes among the first i atoms of a stream
RECURSIVE Instructions(_, _)
Instructions(stream, i) ==
    IF i = 0 THEN 0
    ELSE Instructions(stream, i - 1) + (IF stream[i].tag = "Op" THEN 1 ELSE 0)

\* C38: every non-blank line of a source that the assembler accepts is either
\* one label declaration, of a single token, or one instruction, of an opcode
\* and the operands of its shape, with no token ignored; the stream has one
\* instruction per instruction line.
C38_NoTokenIgnored ==
    asm.ok =>
        /\ \A l \in 1 .. Len(src) :
               split_line(src[l]) # <<>> =>
                   IF IsDecl(l) THEN Len(split_line(src[l])) = 1
                   ELSE /\ OpCode_from_str(Head(split_line(src[l]))).ok
                        /\ ~HasTrailer(l)
        /\ Instructions(asm.code, Len(asm.code))
               = Cardinality({l \in 1 .. Len(src) : split_line(src[l]) # <<>> /\ ~IsDecl(l)})

(***************************************************************************)
(* Properties of the effects and of the failures of a step (Spec)          *)
(***************************************************************************)
\* the instructions that compute into a register
RegisterOps == {SET, SETF, MOV} \cup (ADD .. FLOR)

\* the register that the register instruction executed last writes: its last
\* operand
Target == Operand(Len(ArmOperands(last.op))).val

\* C39: a successful step changes sp by +1 for PUSH and PUSHL, by -1 for POP,
\* by +n for PUSHRF n, by -n for POPRF n and not at all otherwise; it changes
\* csp by +1 for CALL, by -1 for RET and not at all otherwise; a register
\* instruction (SET, SETF, MOV, the integer and the real arithmetic, INC, DEC,
\* CEIL, FLOR) changes at most its destination register and leaves the other
\* registers, cmp, the data stack and the call stack unchanged.
C39_FrameEffect ==
    Succeeded =>
        /\ sp - last.pre.sp =
               CASE last.op \in {PUSH, PUSHL} -> 1
                 [] last.op = POP -> 0 - 1
                 [] last.op = PUSHRF -> Lit
                 [] last.op = POPRF -> 0 - Lit
                 [] OTHER -> 0
        /\ csp - last.pre.csp =
               CASE last.op = CALL -> 1
                 [] last.op = RET -> 0 - 1
                 [] OTHER -> 0
        /\ last.op \in RegisterOps =>
               /\ \A r \in DOMAIN regs : r # Target => regs[r] = last.pre.regs[r]
               /\ cmp = last.pre.cmp
               /\ stack = last.pre.stack
               /\ call_stack = last.pre.call_stack

\* a register instruction has changed its destination while the comparison
\* flag was set
C39_Witness ==
    /\ Succeeded
    /\ last.op \in RegisterOps
    /\ regs[Target] # last.pre.regs[Target]
    /\ cmp # 0

\* the errors of a stack at its limit and of a frame size out of bounds
StackErrors ==
    {"Stack overflow", "Stack underflow", "Call stack overflow", "Call stack underflow",
     "PUSHRF stack overflow", "POPRF stack underflow",
     "PUSHRF frame size out of bounds", "POPRF frame size out of bounds"}

\* C40: when a step fails with a stack overflow or underflow, a call-stack
\* overflow or underflow, or a frame size out of bounds, the registers, the
\* data stack, sp, the call stack, csp and cmp have the values they had before
\* the step, and pc is behind the operands consumed: PUSHRF and POPRF push or
\* pop no part of a frame before they fail.
C40_FailureIsAtomic ==
    (last.res = "Err" /\ last.kind \in StackErrors) =>
        /\ state = "error"
        /\ regs = last.pre.regs
        /\ stack = last.pre.stack
        /\ sp = last.pre.sp
        /\ call_stack = last.pre.call_stack
        /\ csp = last.pre.csp
        /\ cmp = last.pre.cmp
        /\ pc = last.pre.pc + Len(ExpectedTags)

\* PUSHRF has failed for want of free slots, with values in the registers of
\* the frame and on the data stack
C40_Witness ==
    /\ state = "error"
    /\ last.op = PUSHRF
    /\ last.kind = "PUSHRF stack overflow"
    /\ sp > 0
    /\ sp < STACK_SIZE
    /\ \E r \in 0 .. Lit - 1 : regs[r] # 0

(***************************************************************************)
(* Properties of the termination of a run (Spec, SpecRerun)                *)
(***************************************************************************)
\* the step executed last has ended its run: HALT, or a step that failed
Terminated == last.res = "Err" \/ (last.res = "Ok" /\ last.op = HALT)

\* C31: the interpreter is ready, running or terminated, and terminated is
\* absorbing: once HALT was executed or a step failed, no instruction is
\* executed any more and pc, the registers, the stacks and cmp keep their
\* values, also when run is invoked again on the same interpreter.
C31_TerminatedIsAbsorbing ==
    [][Terminated => /\ steps' = steps
                     /\ UNCHANGED <<pc, regs, stack, sp, call_stack, csp, cmp>>]_vars

\* C32: the run of the program SET 0 r0 / SET 0 r1 / loop: INC r0 / ADD r0 r1 /
\* CMPL 50 r0 / JLT loop / HALT eventually executes HALT, with regs[0] = 50
\* and regs[1] = 1275.
C32_LoopTerminates ==
    <>(/\ state = "halted"
       /\ last.op = HALT
       /\ regs[0] = 50
       /\ regs[1] = 1275)

\* run has returned on the HALT of the loop after 50 iterations of four
\* instructions
C32_Witness ==
    /\ src = LoopProgram
    /\ state = "halted"
    /\ steps = 2 + 4 * 50 + 1
    /\ regs[0] = 50
    /\ regs[1] = 1275

(***************************************************************************)
(* Properties of the listing and of the debugger (SpecDisplay, SpecDbg)    *)
(***************************************************************************)
\* the indices at which the instructions of a stream start, from index i on
RECURSIVE InstructionStarts(_, _)
InstructionStarts(stream, i) ==
    IF i >= Len(stream) THEN {}
    ELSE {i} \cup InstructionStarts(stream, i + 1 + ShapeArity(Shape(stream[i + 1].val)))

\* the listing has a line per start, numbered in the order of the starts, and
\* maps that turn each other around
ListingOf(starts) ==
    /\ listing.res = "Ok"
    /\ Len(listing.lines) = Cardinality(starts)
    /\ DOMAIN listing.addr2idx = starts
    /\ \A a \in starts : listing.addr2idx[a] = Cardinality({b \in starts : b < a})
    /\ DOMAIN listing.idx2addr = 0 .. (Len(listing.lines) - 1)
    /\ \A a \in starts : listing.idx2addr[listing.addr2idx[a]] = a
    /\ \A i \in DOMAIN listing.idx2addr : listing.addr2idx[listing.idx2addr[i]] = i

\* C34: for every well-formed stream displayable_code returns exactly one
\* line per instruction, addr2idx maps the start index of each instruction to
\* the number of its line, idx2addr is the exact inverse of addr2idx, and the
\* stream is not modified.
C34_Listing ==
    /\ [](listing.res # "None" /\ Walk(code, 0) => ListingOf(InstructionStarts(code, 0)))
    /\ [][code' = code]_vars

\* the listing of a stream of two instructions, the second of which starts at
\* index 3
C34_Witness ==
    /\ listing.res = "Ok"
    /\ Len(listing.lines) = 2
    /\ 3 \in DOMAIN listing.addr2idx
    /\ listing.addr2idx[3] = 1
    /\ listing.idx2addr[1] = 3

\* C33: after play the debugger executes instructions without prompting until
\* pc is the address of a breakpoint or the program halts, and the instruction
\* at the address of a breakpoint is not executed before the user was prompted
\* again and gave step or play: an iteration that finds pc at a breakpoint
\* executes an instruction only if it has prompted and read one of the two.
C33_PlayUntilBreakpoint ==
    [][/\ (Debugging /\ ~wait_for_input /\ pc \notin breakpoints)
              => /\ steps' = steps + 1
                 /\ cmd' = NoInput
                 /\ Prompts(stdout') = Prompts(stdout)
       /\ (pc \in breakpoints /\ steps' # steps)
              => /\ cmd'.name \in {"step", "play"}
                 /\ Prompts(stdout') = Prompts(stdout) + 1]_vars

\* play has run into a breakpoint, the debugger has reported it and prompted,
\* and the instruction at the breakpoint was executed on the command step
C33_Witness ==
    /\ \E i \in 1 .. Len(stdout) : stdout[i].what = "Breakpoint hit at address"
    /\ cmd.name = "step"
    /\ steps >= 2
    /\ last.pre.pc \in breakpoints
    /\ last.pre.pc > 0

\* C37: each step command executes exactly one instruction, after which the
\* debugger prompts again; the commands regs, stack, code and breakpoint, an
\* unknown command and an empty line execute no instruction and leave pc, the
\* registers, sp, csp, the stacks and cmp unchanged.
C37_DebuggerCommands ==
    [][/\ cmd'.name = "step"
              => /\ steps' = steps + 1
                 /\ Prompts(stdout') = Prompts(stdout) + 1
                 /\ state' = "running" => wait_for_input'
       /\ cmd'.name \in {"regs", "stack", "code", "breakpoint", "unknown", "empty"}
              => /\ steps' = steps
                 /\ UNCHANGED <<pc, regs, sp, csp, stack, call_stack, cmp>>
       /\ (Debugging /\ wait_for_input) => Prompts(stdout') = Prompts(stdout) + 1]_vars

\* an empty line was read at the prompt that followed a step command, while
\* the debugger was still allowed to run
C37_Witness ==
    /\ cmd.name = "empty"
    /\ allowed_to_run
    /\ state = "running"
    /\ steps = 1
    /\ Prompts(stdout) = 2

====
